---------------------------- MODULE Spec2Model ----------------------------
(***************************************************************************)
(* A model of the agentic intake assistant: the normalization library,     *)
(* the two implementations of field application (GenericIntakeAgent and    *)
(* FieldHandlers), the readiness computation and the run() state machine   *)
(* with its bounded follow-up loop.                                        *)
(*                                                                         *)
(* Text is modelled as a sequence of one-character strings, so that        *)
(* strip(), lower(), substring tests and digit parsing are computed the    *)
(* way the Python code computes them.  Field names, intent ids, question   *)
(* texts and log tags are only ever compared for equality and are atoms.   *)
(***************************************************************************)
EXTENDS Integers, Sequences, FiniteSets, TLC

VARIABLES
    config,     \* the intent_config document (in SpecCli: the config path)
    previous,   \* the previous_state mapping handed to the constructor; in
                \* SpecCli the saved session it is loaded from
    agent,      \* GenericIntakeAgent: result record, memory, state, turns
    run,        \* position and local variables of main() and run()
    asked,      \* history: the questions put to the user, in order
    fh,         \* the record and memory a FieldHandlers instance works on; in
                \* SpecShared a second engine, in SpecCli the engine of the
                \* process before
    lastOp,     \* history: the last field application (field, raw, ...), the
                \* last step of two engines, or what main() did so far
    nm          \* inputs and outputs of the last normalization, intent
                \* selection or intent lookup call

vars == <<config, previous, agent, run, asked, fh, lastOp, nm>>

-----------------------------------------------------------------------------
(* Python string primitives                                                *)

UpperChars == <<"A","B","C","D","E","F","G","H","I","J","K","L","M",
                "N","O","P","Q","R","S","T","U","V","W","X","Y","Z">>
LowerChars == <<"a","b","c","d","e","f","g","h","i","j","k","l","m",
                "n","o","p","q","r","s","t","u","v","w","x","y","z">>
DigitChars == <<"0","1","2","3","4","5","6","7","8","9">>

Range(f) == {f[i] : i \in DOMAIN f}

SetMin(S) == CHOOSE x \in S : \A y \in S : x <= y
SetMax(S) == CHOOSE x \in S : \A y \in S : x >= y

\* str.isspace() of one character
IsSpace(c) == c \in {" ", "\t", "\n"}

\* one character is a decimal digit (regex \d, str.isdigit)
IsDigit(c) == c \in {"0","1","2","3","4","5","6","7","8","9"}

DigitVal(c) ==
    CASE c = "0" -> 0 [] c = "1" -> 1 [] c = "2" -> 2 [] c = "3" -> 3 [] c = "4" -> 4
      [] c = "5" -> 5 [] c = "6" -> 6 [] c = "7" -> 7 [] c = "8" -> 8 [] c = "9" -> 9

\* a word character of the regex class \w
IsUpper(c) == \E i \in 1..26 : UpperChars[i] = c
IsWordChar(c) == IsUpper(c) \/ (\E i \in 1..26 : LowerChars[i] = c) \/ IsDigit(c) \/ c = "_"

LowerChar(c) ==
    IF IsUpper(c)
    THEN LowerChars[CHOOSE i \in 1..26 : UpperChars[i] = c]
    ELSE c

\* str.lower()
Lower(s) == [i \in 1..Len(s) |-> LowerChar(s[i])]

\* str.strip()
Strip(s) ==
    LET keep == {i \in 1..Len(s) : ~IsSpace(s[i])}
    IN  IF keep = {} THEN <<>> ELSE SubSeq(s, SetMin(keep), SetMax(keep))

\* sub in s
Contains(s, sub) ==
    \E i \in 1..(Len(s) - Len(sub) + 1) : SubSeq(s, i, i + Len(sub) - 1) = sub

\* the text w stands in s at position k
MatchAt(s, k, w) ==
    k >= 1 /\ k + Len(w) - 1 <= Len(s) /\ SubSeq(s, k, k + Len(w) - 1) = w

\* s.startswith(p)
StartsWith(s, p) == Len(p) <= Len(s) /\ SubSeq(s, 1, Len(p)) = p

\* any(m in s for m in subs)
ContainsAny(s, subs) == \E sub \in subs : Contains(s, sub)

\* int() of a run of decimal digits
RECURSIVE DecVal(_)
DecVal(ds) ==
    IF ds = <<>> THEN 0
    ELSE 10 * DecVal(SubSeq(ds, 1, Len(ds) - 1)) + DigitVal(ds[Len(ds)])

\* the decimal numeral of a natural number (str(n)), used to build inputs
RECURSIVE Numeral(_)
Numeral(n) ==
    IF n < 10 THEN <<DigitChars[n + 1]>>
    ELSE Numeral(n \div 10) \o <<DigitChars[(n % 10) + 1]>>

\* the end of the maximal digit run that starts at position i
RunEnd(s, i) ==
    SetMin({j \in i..Len(s) : j = Len(s) \/ ~IsDigit(s[j + 1])})

\* an empty dict
EmptyDict == [x \in {} |-> x]

\* d.get(k, default)
Get(d, k, default) == IF k \in DOMAIN d THEN d[k] ELSE default

\* d[k] = v
Put(d, k, v) == [x \in DOMAIN d \cup {k} |-> IF x = k THEN v ELSE d[x]]

\* Optional values: None is <<>>, a value v is <<v>>
None == <<>>
Some(v) == <<v>>

-----------------------------------------------------------------------------
(* String literals                                                         *)

NOT_PROVIDED == <<"n","o","t","_","p","r","o","v","i","d","e","d">>
s_urgent == <<"u","r","g","e","n","t">>
s_flexible == <<"f","l","e","x","i","b","l","e">>
s_asap == <<"a","s","a","p">>
s_immediately == <<"i","m","m","e","d","i","a","t","e","l","y">>
s_not_urgent == <<"n","o","t"," ","u","r","g","e","n","t">>
s_repair == <<"r","e","p","a","i","r">>
s_fix == <<"f","i","x">>
s_install == <<"i","n","s","t","a","l","l">>
s_installation == <<"i","n","s","t","a","l","l","a","t","i","o","n">>
s_maintenance == <<"m","a","i","n","t","e","n","a","n","c","e">>
s_maintain == <<"m","a","i","n","t","a","i","n">>
s_consultation == <<"c","o","n","s","u","l","t","a","t","i","o","n">>
s_consult == <<"c","o","n","s","u","l","t">>
s_no == <<"n","o">>
s_none == <<"n","o","n","e">>
s_n_a == <<"n","/","a">>
s_na == <<"n","a">>
s_nope == <<"n","o","p","e">>
s_within_24h == <<"w","i","t","h","i","n","_","2","4","h">>
s_within_1_week == <<"w","i","t","h","i","n","_","1","_","w","e","e","k">>
s_within_2_weeks == <<"w","i","t","h","i","n","_","2","_","w","e","e","k","s">>
s_lt50 == <<"<","5","0">>
s_50_100 == <<"5","0","-","1","0","0">>
s_100_300 == <<"1","0","0","-","3","0","0">>
s_300_500 == <<"3","0","0","-","5","0","0">>
s_500_1000 == <<"5","0","0","-","1","0","0","0">>
s_today == <<"t","o","d","a","y">>
s_tomorrow == <<"t","o","m","o","r","r","o","w">>
s_within_24 == <<"w","i","t","h","i","n"," ","2","4">>
s_24h == <<"2","4","h">>
s_week == <<"w","e","e","k">>
s_2 == <<"2">>
s_two == <<"t","w","o">>
s_within_2_weeks_sp == <<"w","i","t","h","i","n"," ","2"," ","w","e","e","k","s">>
s_two_weeks == <<"t","w","o"," ","w","e","e","k","s">>
s_14_days == <<"1","4"," ","d","a","y","s">>
s_within_1_week_sp == <<"w","i","t","h","i","n"," ","1"," ","w","e","e","k">>
s_next_week == <<"n","e","x","t"," ","w","e","e","k">>
s_this_week == <<"t","h","i","s"," ","w","e","e","k">>
s_7_days == <<"7"," ","d","a","y","s">>
s_toronto == <<"t","o","r","o","n","t","o">>
s_Toronto == <<"T","o","r","o","n","t","o">>
s_emergency == <<"e","m","e","r","g","e","n","c","y">>
s_right_now == <<"r","i","g","h","t"," ","n","o","w">>
s_no_rush == <<"n","o"," ","r","u","s","h">>
s_whenever == <<"w","h","e","n","e","v","e","r">>
s_what == <<"w","h","a","t">>
s_how == <<"h","o","w">>
s_price == <<"p","r","i","c","e">>
s_pricing == <<"p","r","i","c","i","n","g">>
s_cost == <<"c","o","s","t">>
s_charge == <<"c","h","a","r","g","e">>
s_rates == <<"r","a","t","e","s">>
s_hours == <<"h","o","u","r","s">>
s_address == <<"a","d","d","r","e","s","s">>
s_qmark == <<"?">>
s_yes == <<"y","e","s">>
s_ok == <<"o","k">>
s_okay == <<"o","k","a","y">>
s_Repair == <<"R","e","p","a","i","r">>
s_Berlin == <<"B","e","r","l","i","n">>
s_berlin == <<"b","e","r","l","i","n">>
s_TORONTO == <<"T","O","R","O","N","T","O">>
s_blank2 == <<" "," ">>
s_repair_padded == <<" ","r","e","p","a","i","r"," ">>
s_N_A == <<"N","/","A">>
s_open_until_6pm == <<"o","p","e","n"," ","u","n","t","i","l"," ","6","p","m">>
s_800 == <<"8","0","0">>
s_40 == <<"4","0">>
s_usd800 == <<"$","8","0","0">>
s_i_told_you_800 == <<"i"," ","t","o","l","d"," ","y","o","u"," ","8","0","0">>
s_not_sure == <<"n","o","t"," ","s","u","r","e">>
s_6_days == <<"6"," ","d","a","y","s">>
s_20_days == <<"2","0"," ","d","a","y","s">>
s_rapair == <<"r","a","p","a","i","r">>
s_hi == <<"h","i">>
s_opening_happy == <<"N","e","e","d"," ","h","e","l","p"," ","w","i","t","h"," ","a"," ","l","a","p","t","o","p"," ","i","n"," ","T","o","r","o","n","t","o"," ","n","e","x","t"," ","w","e","e","k",","," ","b","u","d","g","e","t"," ","$","8","0","0",".">>
s_opening_next_week == <<"N","e","e","d"," ","r","e","p","a","i","r"," ","n","e","x","t"," ","w","e","e","k",".">>
s_opening_fix == <<"N","e","e","d"," ","a"," ","f","i","x"," ","a","s","a","p",","," ","b","u","d","g","e","t"," ","$","4","0",".">>
s_NO_SUGGESTION == <<"N","O","_","S","U","G","G","E","S","T","I","O","N">>
s_tax == <<"t","a","x">>
s_opening_tax == <<"N","e","e","d"," ","t","a","x"," ","h","e","l","p",".">>
s_cheap == <<"c","h","e","a","p">>
s_premium == <<"p","r","e","m","i","u","m">>
s_2024 == <<"2","0","2","4">>
s_tornto == <<"t","o","r","n","t","o">>
s_repar == <<"r","e","p","a","r">>
s_reparar == <<"r","e","p","a","r","a","r">>
s_vat == <<"v","a","t">>
s_need == <<"n","e","e","d">>
s_tax_vat_repair == <<"T","a","x"," ","a","n","d"," ","V","A","T",","," ","t","h","e","n"," ","r","e","p","a","i","r">>
s_tax_repair == <<"t","a","x"," ","r","e","p","a","i","r">>
s_No == <<"N","o">>
s_n_a_padded == <<" ","n","/","a"," ">>
s_NOPE == <<"N","O","P","E">>
s_north_side_only == <<"n","o","r","t","h"," ","s","i","d","e"," ","o","n","l","y">>
s_open_padded == <<" "," ","o","p","e","n"," ","u","n","t","i","l"," ","6","p","m"," ">>
s_Open_Until_6PM == <<"O","p","e","n"," ","U","n","t","i","l"," ","6","P","M">>
s_only_weekdays == <<"o","n","l","y"," ","w","e","e","k","d","a","y","s">>
s_not_before_9 == <<"n","o","t"," ","b","e","f","o","r","e"," ","9">>
s_YES == <<"Y","E","S">>
s_Urgent_padded == <<" ","U","r","g","e","n","t"," ">>
s_what_is_the_price == <<"w","h","a","t"," ","i","s"," ","t","h","e"," ","p","r","i","c","e","?">>
s_showroom == <<"s","h","o","w","r","o","o","m">>
s_hourly_cleaning == <<"h","o","u","r","l","y"," ","c","l","e","a","n","i","n","g">>
s_ab == <<"a","b">>
s_abc == <<"a","b","c">>
s_12 == <<"1","2">>
s_12345 == <<"1","2","3","4","5">>
s_12a == <<"1","2","a">>
s_okay_then == <<"o","k","a","y"," ","t","h","e","n">>
s_a_qmark_b == <<"a","?","b">>
s_address_change == <<"a","d","d","r","e","s","s"," ","c","h","a","n","g","e">>

-----------------------------------------------------------------------------
(* normalizers.py                                                          *)

norm_text(s) == Strip(s)

norm_lc(s) == Lower(norm_text(s))

\* re.search(r"(\d+)", text): the first maximal run of digits, as an integer
extract_first_int(text) ==
    LET ds == {i \in 1..Len(text) : IsDigit(text[i])}
    IN  IF ds = {} THEN None
        ELSE LET i == SetMin(ds)
             IN  Some(DecVal(SubSeq(text, i, RunEnd(text, i))))

question_markers ==
    {s_what, s_how, s_price, s_pricing, s_cost, s_charge, s_rates, s_hours,
     s_address, s_qmark}

service_type_stoplist == {s_yes, s_no, s_ok, s_okay, s_urgent, s_flexible}

\* the variant below has no list of refused words
is_valid_service_type_any_word(text) ==
    LET t == norm_lc(text)
    IN  /\ t # <<>>
        /\ ~ContainsAny(t, question_markers)
        /\ ~(Len(t) < 3)
        /\ ~(\A i \in 1..Len(t) : IsDigit(t[i]))

is_valid_service_type(text) ==
    LET t == norm_lc(text)
    IN  /\ t # <<>>
        /\ ~ContainsAny(t, question_markers)
        /\ ~(Len(t) < 3)
        /\ ~(\A i \in 1..Len(t) : IsDigit(t[i]))
        /\ t \notin service_type_stoplist

\* config.get("normalizers", {}).get(kind, {}): an ordered list of
\* [canonical, synonyms] entries (a dict keeps its insertion order)
NormTable(cfg, kind) ==
    IF kind \in DOMAIN cfg.normalizers THEN cfg.normalizers[kind] ELSE <<>>

\* the first canonical, in table order, one of whose synonyms equals raw_lc
SynonymMatch(table, raw_lc) ==
    LET hits == {i \in 1..Len(table) :
                    \E j \in 1..Len(table[i].synonyms) :
                        raw_lc = norm_lc(table[i].synonyms[j])}
    IN  IF hits = {} THEN None ELSE Some(table[SetMin(hits)].canonical)

TableKeys(table) == {table[i].canonical : i \in 1..Len(table)}

\* re.search(r"(\d+)\s*(day|days|d)\b", t): the digits of the leftmost match
DayCountMatch(t) ==
    LET AfterSpaces(j) ==
            SetMin({k \in j..(Len(t) + 1) : k = Len(t) + 1 \/ ~IsSpace(t[k])})
        BoundaryAt(k) == k > Len(t) \/ ~IsWordChar(t[k])
        UnitAt(k) ==
            \/ MatchAt(t, k, <<"d","a","y">>) /\ BoundaryAt(k + 3)
            \/ MatchAt(t, k, <<"d","a","y","s">>) /\ BoundaryAt(k + 4)
            \/ MatchAt(t, k, <<"d">>) /\ BoundaryAt(k + 1)
        starts == {i \in 1..Len(t) :
                     /\ IsDigit(t[i])
                     /\ UnitAt(AfterSpaces(RunEnd(t, i) + 1))}
    IN  IF starts = {} THEN None
        ELSE LET i == SetMin(starts)
             IN  Some(DecVal(SubSeq(t, i, RunEnd(t, i))))

\* a bucketing whose first boundary is closed on the wrong side
BudgetBucketClosedBelow(n) ==
    IF n <= 50 THEN s_lt50
    ELSE IF n <= 100 THEN s_50_100
    ELSE IF n <= 300 THEN s_100_300
    ELSE IF n <= 500 THEN s_300_500
    ELSE s_500_1000

BudgetBucket(n) ==
    IF n < 50 THEN s_lt50
    ELSE IF 50 <= n /\ n <= 100 THEN s_50_100
    ELSE IF 100 < n /\ n <= 300 THEN s_100_300
    ELSE IF 300 < n /\ n <= 500 THEN s_300_500
    ELSE s_500_1000

\* a day-count bucketing whose one-week boundary is open
TimelineHeuristicOpenWeek(t) ==
    IF \/ Contains(t, s_today) \/ Contains(t, s_tomorrow)
       \/ Contains(t, s_within_24h) \/ Contains(t, s_within_24)
       \/ Contains(t, s_24h)
    THEN s_within_24h
    ELSE LET m == DayCountMatch(t)
         IN  IF m # None /\ m[1] <= 1 THEN s_within_24h
             ELSE IF m # None /\ m[1] < 7 THEN s_within_1_week
             ELSE IF m # None /\ m[1] <= 14 THEN s_within_2_weeks
             ELSE IF Contains(t, s_week)
                  THEN IF Contains(t, s_2) \/ Contains(t, s_two)
                       THEN s_within_2_weeks
                       ELSE s_within_1_week
             ELSE IF Contains(t, s_within_1_week) THEN s_within_1_week
             ELSE IF Contains(t, s_within_2_weeks) THEN s_within_2_weeks
             ELSE NOT_PROVIDED

TimelineHeuristic(t) ==
    IF \/ Contains(t, s_today) \/ Contains(t, s_tomorrow)
       \/ Contains(t, s_within_24h) \/ Contains(t, s_within_24)
       \/ Contains(t, s_24h)
    THEN s_within_24h
    ELSE LET m == DayCountMatch(t)
         IN  IF m # None /\ m[1] <= 1 THEN s_within_24h
             ELSE IF m # None /\ m[1] <= 7 THEN s_within_1_week
             ELSE IF m # None /\ m[1] <= 14 THEN s_within_2_weeks
             ELSE IF Contains(t, s_week)
                  THEN IF Contains(t, s_2) \/ Contains(t, s_two)
                       THEN s_within_2_weeks
                       ELSE s_within_1_week
             ELSE IF Contains(t, s_within_1_week) THEN s_within_1_week
             ELSE IF Contains(t, s_within_2_weeks) THEN s_within_2_weeks
             ELSE NOT_PROVIDED

normalize_value(kind, raw, cfg) ==
    LET raw_clean == norm_text(raw)
        raw_lc    == norm_lc(raw)
        table     == NormTable(cfg, kind)
        syn       == SynonymMatch(table, raw_lc)
    IN  IF kind \in {"text", "service_type"}
        THEN IF raw_clean # <<>> THEN raw_clean ELSE NOT_PROVIDED
        ELSE IF syn # None THEN syn[1]
        ELSE IF raw_clean \in TableKeys(table) THEN raw_clean
        ELSE IF kind = "budget"
             THEN LET n == extract_first_int(raw_lc)
                  IN  IF n = None THEN NOT_PROVIDED ELSE BudgetBucket(n[1])
        ELSE IF kind = "timeline" THEN TimelineHeuristic(raw_lc)
        ELSE NOT_PROVIDED

\* the variant below compares the text with the ignore list as it was typed
normalize_constraints_cased(raw, cfg) ==
    LET raw_clean == norm_text(raw)
        raw_lc    == norm_lc(raw_clean)
    IN  IF raw_clean = <<>> THEN <<>>
        ELSE IF StartsWith(raw_lc, s_no) THEN <<>>
        ELSE IF raw_clean \in {norm_lc(x) : x \in cfg.constraints_ignore} THEN <<>>
        ELSE raw_clean

normalize_constraints(raw, cfg) ==
    LET raw_clean == norm_text(raw)
        raw_lc    == norm_lc(raw_clean)
        ignore    == cfg.constraints_ignore
    IN  IF raw_clean = <<>> THEN <<>>
        ELSE IF StartsWith(raw_lc, s_no) THEN <<>>
        ELSE IF raw_lc \in {norm_lc(x) : x \in ignore} THEN <<>>
        ELSE raw_clean

-----------------------------------------------------------------------------
(* Configuration documents the engine is run against                       *)

Step(f, req, q, n) == [field |-> f, required |-> req, question |-> q, normalize |-> n]

Entry(c, syns) == [canonical |-> c, synonyms |-> syns]

urgency_table ==
    << Entry(s_urgent, <<s_urgent, s_asap, s_immediately>>),
       Entry(s_flexible, <<s_flexible, s_not_urgent>>) >>

timeline_table ==
    << Entry(s_within_24h, <<s_within_24h>>),
       Entry(s_within_1_week, <<s_within_1_week>>),
       Entry(s_within_2_weeks, <<s_within_2_weeks>>) >>

service_type_table ==
    << Entry(s_repair, <<s_repair, s_fix>>),
       Entry(s_installation, <<s_install, s_installation>>),
       Entry(s_maintenance, <<s_maintenance, s_maintain>>),
       Entry(s_consultation, <<s_consultation, s_consult>>) >>

\* the service_type synonyms of CONFIG in test_normalizers.py
service_type_table_normalizers ==
    << Entry(s_repair, <<s_repair, s_fix, s_repar, s_reparar>>),
       Entry(s_installation, <<s_install, s_installation>>),
       Entry(s_maintenance, <<s_maintenance, s_maintain>>),
       Entry(s_consultation, <<s_consultation, s_consult>>) >>

pre_quote_flow ==
    << Step("issue_description", TRUE, "q_issue", "text"),
       Step("service_type", TRUE, "q_service_type", "service_type"),
       Step("urgency", FALSE, "q_urgency", "urgency"),
       Step("location", TRUE, "q_location", "text"),
       Step("budget_range", FALSE, "q_budget", "budget"),
       Step("constraints", FALSE, "q_constraints", "text") >>

\* the config of test_agent_simulated_inputs_happy_path
ConfigHappy ==
    [ llm_enabled |-> FALSE,
      defaults    |-> [service_category |-> "technical_services"],
      normalizers |-> [urgency |-> urgency_table, service_type |-> service_type_table],
      constraints_ignore |-> {s_no, s_none, s_n_a, s_na, s_nope},
      intents |-> << [ id |-> "pre_quote_request", priority |-> 10,
                       service_category |-> "technical_services",
                       match |-> [always |-> TRUE],
                       flow |-> pre_quote_flow,
                       handoff |-> [recommended_action |-> "route_human",
                                    routing_hint |-> "human_review"] ] >> ]

\* the config of test_agent_missing_location_triggers_followup
ConfigMissingLocation ==
    [ llm_enabled |-> FALSE,
      defaults    |-> EmptyDict,
      normalizers |-> EmptyDict,
      constraints_ignore |-> {},
      intents |-> << [ id |-> "pre_quote_request", priority |-> 10,
                       match |-> [always |-> TRUE],
                       flow |-> << Step("issue_description", TRUE, "q_describe", "text"),
                                   Step("location", TRUE, "q_location", "text") >> ] >> ]

\* CONFIG of test_normalizers.py
ConfigNormalizers ==
    [ llm_enabled |-> FALSE,
      defaults    |-> EmptyDict,
      normalizers |-> [urgency |-> urgency_table, timeline |-> timeline_table,
                       service_type |-> service_type_table_normalizers],
      constraints_ignore |-> {s_none, s_n_a, s_na, s_no, s_nope},
      intents |-> <<>> ]

budget_table ==
    << Entry(s_lt50, <<s_cheap>>), Entry(s_500_1000, <<s_premium>>) >>

\* a second intent pack: a keyword intent that requires urgency and a field
\* outside the fixed set, an "always" intent that requires nothing, a
\* configured default handoff and the correction client enabled
ConfigTax ==
    [ llm_enabled |-> TRUE,
      defaults    |-> [service_category |-> "tax_services",
                       handoff |-> [recommended_action |-> "route_human",
                                    routing_hint |-> "tax_desk"]],
      normalizers |-> [urgency |-> urgency_table, budget |-> budget_table],
      constraints_ignore |-> {s_none},
      intents |-> << [ id |-> "tax_help", priority |-> 5,
                       match |-> [keywords_any |-> <<s_tax>>],
                       flow |-> << Step("issue_description", TRUE, "q_issue", "text"),
                                   Step("urgency", TRUE, "q_urgency", "urgency"),
                                   Step("location", TRUE, "q_location", "text"),
                                   Step("tax_year", TRUE, "q_tax_year", "text") >>,
                       handoff |-> [recommended_action |-> "escalate",
                                    routing_hint |-> "tax_team"] ],
                     [ id |-> "fallback_unknown", priority |-> 1,
                       match |-> [always |-> TRUE],
                       flow |-> << Step("issue_description", FALSE, "q_issue", "text"),
                                   Step("timeline", FALSE, "q_timeline", "timeline") >>,
                       handoff |-> [recommended_action |-> "completed",
                                    routing_hint |-> "auto_close"] ] >> ]

\* a third intent pack: every core field asked with its own normalizer and a
\* closed set of allowed service types (intent["fields"], read by
\* IntentRouter.allowed_for_field)
ConfigClosed ==
    [ llm_enabled |-> TRUE,
      defaults    |-> EmptyDict,
      normalizers |-> [urgency |-> urgency_table, timeline |-> timeline_table,
                       service_type |-> service_type_table],
      constraints_ignore |-> {s_none},
      intents |-> << [ id |-> "service_desk", priority |-> 1,
                       match |-> [always |-> TRUE],
                       flow |-> << Step("issue_description", TRUE, "q_issue", "text"),
                                   Step("service_type", TRUE, "q_service_type", "service_type"),
                                   Step("urgency", FALSE, "q_urgency", "urgency"),
                                   Step("timeline", FALSE, "q_timeline", "timeline"),
                                   Step("location", TRUE, "q_location", "text"),
                                   Step("budget_range", FALSE, "q_budget", "budget") >>,
                       fields |-> [service_type |->
                                     [allowed |-> <<s_Repair, s_installation>>]] ] >> ]

Configs ==
    [ happy |-> ConfigHappy, missing_location |-> ConfigMissingLocation,
      normalizers |-> ConfigNormalizers, tax |-> ConfigTax,
      closed_set |-> ConfigClosed ]

ConfigNames == DOMAIN Configs

-----------------------------------------------------------------------------
(* Bounds                                                                  *)

\* budget amounts 0..MaxBudget are bucketed
MaxBudget == 520


-----------------------------------------------------------------------------
(* schema.py and GenericIntakeAgent.__init__                               *)

RequestDetails ==
    [ issue_description |-> NOT_PROVIDED, service_type |-> NOT_PROVIDED,
      urgency |-> NOT_PROVIDED, timeline |-> NOT_PROVIDED,
      location |-> NOT_PROVIDED, budget_range |-> NOT_PROVIDED,
      constraints |-> <<>>, extra_fields |-> EmptyDict ]

DefaultMemory ==
    [ missing_fields |-> <<>>, collected |-> EmptyDict, attempts |-> EmptyDict,
      last_state |-> "S0", last_intent_id |-> None ]

\* self.memory.update(previous_state) over the defaults; previous_state is
\* None or a mapping with any of the five keys
InitialMemory(previous_state) ==
    IF previous_state = None THEN DefaultMemory
    ELSE [k \in DOMAIN DefaultMemory |->
            IF k \in DOMAIN previous_state[1] THEN previous_state[1][k]
            ELSE DefaultMemory[k]]

\* IntakeResult() with the engine's own fields beside it
NewAgent(previous_state) ==
    [ details          |-> RequestDetails,
      request_type     |-> "service_request",
      service_category |-> "general_services",
      intent_id        |-> "fallback_unknown",
      summary          |-> <<"Service request">>,
      decision_log     |-> <<>>,
      sources          |-> [prefill |-> FALSE, llm_used |-> <<>>],
      readiness        |-> [status |-> "not_ready", missing_fields |-> <<>>,
                            inconsistencies |-> <<>>, notes |-> "none"],
      handoff          |-> [recommended_action |-> "ask_follow_up",
                            next_questions |-> <<>>, routing_hint |-> "human_review"],
      session_state    |-> "S0",
      conversation_turns |-> 0,
      state            |-> "S0",
      turns            |-> 0,
      memory           |-> InitialMemory(previous_state) ]

\* export_state()
export_state(A) == [A.memory EXCEPT !.last_state = A.state]

_set_state(A, st) == [A EXCEPT !.state = st, !.session_state = st]

_log(A, msg) == [A EXCEPT !.decision_log = Append(@, msg)]

_add_inconsistency(A, msg) ==
    [A EXCEPT !.readiness.inconsistencies = Append(@, msg)]

\* f"{field}_conflict: kept '{kept}', ignored '{ignored}'"
Conflict(f, kept, ignored) == [field |-> f, kept |-> kept, ignored |-> ignored]

_is_valid_service_type(text) ==
    LET t == Strip(Lower(text))
    IN  /\ t # <<>>
        /\ ~ContainsAny(t, question_markers)
        /\ ~(Len(t) < 3)
        /\ ~(\A i \in 1..Len(t) : IsDigit(t[i]))
        /\ t \notin service_type_stoplist

_BudgetBucket(n) ==
    IF n < 50 THEN s_lt50
    ELSE IF 50 <= n /\ n <= 100 THEN s_50_100
    ELSE IF 100 < n /\ n <= 300 THEN s_100_300
    ELSE IF 300 < n /\ n <= 500 THEN s_300_500
    ELSE s_500_1000

_normalize_value(kind, raw, cfg) ==
    LET raw_clean == norm_text(raw)
        raw_lc    == norm_lc(raw)
        table     == NormTable(cfg, kind)
        syn       == SynonymMatch(table, raw_lc)
    IN  IF kind \in {"text", "service_type"}
        THEN IF raw_clean # <<>> THEN raw_clean ELSE NOT_PROVIDED
        ELSE IF syn # None THEN syn[1]
        ELSE IF raw_clean \in TableKeys(table) THEN raw_clean
        ELSE IF kind = "budget"
             THEN LET n == extract_first_int(raw_lc)
                  IN  IF n # None THEN _BudgetBucket(n[1]) ELSE NOT_PROVIDED
        ELSE IF kind = "timeline" THEN TimelineHeuristic(raw_lc)
        ELSE NOT_PROVIDED

_normalize_constraints(raw, cfg) ==
    LET raw_clean == norm_text(raw)
        raw_lc    == norm_lc(raw_clean)
    IN  IF raw_clean = <<>> THEN <<>>
        ELSE IF StartsWith(raw_lc, s_no) THEN <<>>
        ELSE IF raw_lc \in {norm_lc(x) : x \in cfg.constraints_ignore} THEN <<>>
        ELSE raw_clean

\* intent.get("flow", []) or []
Flow(intent) == Get(intent, "flow", <<>>)

FallbackQuestion(field) ==
    IF field \in {"service_type", "location", "budget_range", "timeline",
                  "urgency", "issue_description"}
    THEN <<"fallback_question", field>>
    ELSE <<"Please provide", field>>

_question_for_field(intent, field) ==
    LET flow == Flow(intent)
        hits == {i \in 1..Len(flow) : flow[i].field = field /\ flow[i].question # ""}
    IN  IF hits # {} THEN <<flow[SetMin(hits)].question>> ELSE FallbackQuestion(field)

_required_fields_from_intent(intent) ==
    LET flow == Flow(intent)
        F[i \in 0..Len(flow)] ==
            IF i = 0 THEN <<>>
            ELSE IF flow[i].required /\ flow[i].field # ""
                 THEN Append(F[i - 1], flow[i].field) ELSE F[i - 1]
    IN  F[Len(flow)]

_normalizer_for_field(intent, field) ==
    LET flow == Flow(intent)
        hits == {i \in 1..Len(flow) : flow[i].field = field}
    IN  IF hits # {} THEN flow[SetMin(hits)].normalize ELSE "text"

-----------------------------------------------------------------------------
(* llm_client.py and field_corrector.py: the external correction call is   *)
(* an input, "reply" (the model's output text, parsed), and so are the     *)
(* user's answers to the confirmation prompt, "confirm"                    *)

NoReply == [kind |-> "empty"]

NoExt == [reply |-> NoReply, confirm |-> << <<>>, <<>> >>,
          st_reply |-> NoReply, st_confirm |-> <<>>]

\* str.upper() is only used to compare with NO_SUGGESTION
IsNoSuggestion(s) == Lower(s) = Lower(s_NO_SUGGESTION)

suggest_correction_location(value, cfg, reply) ==
    LET v == Strip(value)
    IN  IF ~cfg.llm_enabled THEN None
        ELSE IF v = <<>> THEN None
        ELSE IF reply.kind # "json" THEN None
        ELSE LET suggestion == Strip(reply.suggestion)
             IN  IF reply.confidence < 75 THEN None
                 ELSE IF suggestion = <<>> \/ IsNoSuggestion(suggestion) THEN None
                 ELSE IF Lower(suggestion) = Lower(v) THEN None
                 ELSE Some(suggestion)

suggest_location_correction(value, cfg, reply) ==
    suggest_correction_location(value, cfg, reply)

yes_answers == { <<"y">>, s_yes, <<"s">>, <<"s","i">> }
no_answers  == { <<"n">>, s_no }

\* the confirmation dialogue once the suggestion resp is known
ConfirmSuggestion(raw_value, resp, confirm) ==
    LET Decide(suggestion, ans1, ans2) ==
            IF Lower(suggestion) = Lower(raw_value) THEN Some(raw_value)
            ELSE IF ans1 \in yes_answers THEN Some(suggestion)
            ELSE IF ans1 \in no_answers THEN Some(raw_value)
            ELSE IF ans2 \in yes_answers THEN Some(suggestion)
            ELSE Some(raw_value)
    IN  IF resp = None THEN Some(raw_value)
        ELSE IF Strip(resp[1]) = <<>> THEN Some(raw_value)
        ELSE Decide(Strip(resp[1]), Lower(Strip(confirm[1])), Lower(Strip(confirm[2])))

maybe_correct_location_with_confirmation(raw, cfg, ext) ==
    LET Corrected(raw_value) ==
            IF raw_value = <<>> THEN None
            ELSE ConfirmSuggestion(raw_value,
                                   suggest_location_correction(raw_value, cfg, ext.reply),
                                   ext.confirm)
    IN  Corrected(Strip(raw))

-----------------------------------------------------------------------------
(* GenericIntakeAgent: field application                                   *)

\* one of the four fields whose handler differs only in the kind it
\* normalizes with and in the tag of its conflict message
ApplyCanonical(A, cfg, field, kind, tag, raw) ==
    LET cur == A.details[field]
        Set(val) ==
            IF val = NOT_PROVIDED THEN A
            ELSE IF cur # NOT_PROVIDED /\ cur # val
            THEN _log(_add_inconsistency(A, Conflict(tag, cur, val)),
                      <<"inconsistency", tag, cur, val>>)
            ELSE _log([A EXCEPT !.details[field] = val], <<"user_set", field, val>>)
    IN  Set(_normalize_value(kind, raw, cfg))

ApplyServiceType(A, cfg, raw) ==
    LET cur == A.details.service_type
        Set(val) ==
            IF val = NOT_PROVIDED \/ ~_is_valid_service_type(val) THEN A
            ELSE IF cur # NOT_PROVIDED /\ norm_lc(cur) # norm_lc(val)
            THEN _log(_add_inconsistency(A, Conflict("service_type", cur, val)),
                      <<"inconsistency", "service_type", cur, val>>)
            ELSE _log([A EXCEPT !.memory.collected = Put(@, "service_type", val),
                                !.details.service_type = val,
                                !.summary = <<"Pre-quote for", val>>],
                      <<"user_set", "service_type", val>>)
    IN  Set(_normalize_value("service_type", raw, cfg))

ApplyLocation(A, cfg, normalizer, raw, ext) ==
    LET cur == A.details.location
        Set(A1, val) ==
            IF val = NOT_PROVIDED THEN A1
            ELSE IF cur # NOT_PROVIDED /\ norm_lc(cur) # norm_lc(val)
            THEN _log(_add_inconsistency(A1, Conflict("location", cur, val)),
                      <<"inconsistency", "location", cur, val>>)
            ELSE _log([A1 EXCEPT !.details.location = val], <<"user_set", "location", val>>)
        Corrected(corrected) ==
            IF corrected # None /\ corrected[1] # <<>>
            THEN Set(_log([A EXCEPT !.sources.llm_used =
                              IF "location_correction" \in Range(@) THEN @
                              ELSE Append(@, "location_correction")],
                          <<"llm_suggestion_accepted", "location", corrected[1]>>),
                     _normalize_value(normalizer, corrected[1], cfg))
            ELSE Set(A, _normalize_value(normalizer, raw, cfg))
    IN  Corrected(maybe_correct_location_with_confirmation(raw, cfg, ext))

\* the body of _apply_field after its blank-answer guard
ApplyNonBlank(A, cfg, intent, field, raw, ext) ==
    LET normalizer == _normalizer_for_field(intent, field)
        SetConstraints(val) ==
            IF val # <<>>
            THEN _log([A EXCEPT !.details.constraints = Append(@, val)],
                      <<"user_set", "constraints", val>>)
            ELSE A
        SetIssue(val) ==
            _log([A EXCEPT !.memory.collected = Put(@, "issue_description", val),
                           !.details.issue_description = val],
                 <<"user_set", "issue_description">>)
    IN  CASE field = "constraints" -> SetConstraints(_normalize_constraints(raw, cfg))
          [] field = "issue_description" -> SetIssue(_normalize_value(normalizer, raw, cfg))
          [] field = "service_type" -> ApplyServiceType(A, cfg, raw)
          [] field = "urgency" -> ApplyCanonical(A, cfg, "urgency", "urgency", "urgency", raw)
          [] field = "timeline" -> ApplyCanonical(A, cfg, "timeline", "timeline", "timeline", raw)
          [] field = "location" -> ApplyLocation(A, cfg, normalizer, raw, ext)
          [] field = "budget_range" ->
               ApplyCanonical(A, cfg, "budget_range", "budget", "budget", raw)
          [] OTHER ->
               [A EXCEPT !.memory.collected =
                            Put(@, field, _normalize_value(normalizer, raw, cfg))]

\* the same handler without its blank-answer guard
_apply_field_unguarded(A, cfg, intent, field, raw, ext) ==
    ApplyNonBlank(A, cfg, intent, field, raw, ext)

\* the variant below starts the constraints list anew at each application
_apply_field_fresh_list(A, cfg, intent, field, raw, ext) ==
    IF norm_text(raw) = <<>> THEN A
    ELSE ApplyNonBlank([A EXCEPT !.details.constraints = <<>>], cfg, intent, field, raw, ext)

_apply_field(A, cfg, intent, field, raw, ext) ==
    IF norm_text(raw) = <<>> THEN A
    ELSE ApplyNonBlank(A, cfg, intent, field, raw, ext)

_apply_prefill(A, cfg, intent, field, value0, ext) ==
    LET value == norm_text(value0)
        A1 == [A EXCEPT !.sources.prefill = TRUE]
        Set(f, norm) ==
            IF norm # NOT_PROVIDED
            THEN _log([A1 EXCEPT !.details[f] = norm], <<"prefill", f, norm>>)
            ELSE A1
        kind == CASE field = "location" -> _normalizer_for_field(intent, field)
                  [] field = "timeline" -> "timeline"
                  [] field = "budget_range" -> "budget"
                  [] field = "urgency" -> "urgency"
                  [] OTHER -> ""
    IN  IF value = <<>> THEN A
        ELSE IF field \in {"location", "timeline", "budget_range", "urgency"}
        THEN Set(field, _normalize_value(kind, value, cfg))
        ELSE _apply_field(A1, cfg, intent, field, value, ext)

-----------------------------------------------------------------------------
(* field_extractor.py                                                      *)

\* re.search(r"\$\s*(\d{2,6})", t): the digits of the leftmost match
BudgetNumMatch(t) ==
    LET AfterSpaces(j) ==
            SetMin({k \in j..(Len(t) + 1) : k = Len(t) + 1 \/ ~IsSpace(t[k])})
        DigitsFrom(k) == IF k > Len(t) \/ ~IsDigit(t[k]) THEN 0 ELSE RunEnd(t, k) - k + 1
        starts == {i \in 1..Len(t) : t[i] = "$" /\ DigitsFrom(AfterSpaces(i + 1)) >= 2}
    IN  IF starts = {} THEN None
        ELSE LET k == AfterSpaces(SetMin(starts) + 1)
                 n == IF DigitsFrom(k) > 6 THEN 6 ELSE DigitsFrom(k)
             IN  Some(DecVal(SubSeq(t, k, k + n - 1)))

ExtractorBucket(n) ==
    IF n < 50 THEN s_lt50
    ELSE IF 50 <= n /\ n <= 100 THEN s_50_100
    ELSE IF 100 < n /\ n <= 300 THEN s_100_300
    ELSE IF 300 < n /\ n <= 500 THEN s_300_500
    ELSE s_500_1000

\* the extracted fields in the order the dict receives them
extract_prefill(text) ==
    LET t  == Strip(text)
        tl == Lower(t)
        timeline ==
            IF ContainsAny(tl, {s_within_24h, s_within_24, s_today, s_tomorrow})
            THEN << <<"timeline", s_within_24h>> >>
            ELSE IF ContainsAny(tl, {s_within_2_weeks, s_within_2_weeks_sp, s_two_weeks, s_14_days})
            THEN << <<"timeline", s_within_2_weeks>> >>
            ELSE IF ContainsAny(tl, {s_within_1_week, s_within_1_week_sp, s_next_week,
                                     s_this_week, s_7_days})
            THEN << <<"timeline", s_within_1_week>> >>
            ELSE <<>>
        m == BudgetNumMatch(t)
        budget == IF m # None THEN << <<"budget_range", ExtractorBucket(m[1])>> >> ELSE <<>>
        location == IF Contains(tl, s_toronto) THEN << <<"location", s_Toronto>> >> ELSE <<>>
        urgency ==
            IF ContainsAny(tl, {s_urgent, s_asap, s_emergency, s_immediately, s_right_now})
            THEN << <<"urgency", s_urgent>> >>
            ELSE IF ContainsAny(tl, {s_flexible, s_no_rush, s_not_urgent, s_whenever})
            THEN << <<"urgency", s_flexible>> >>
            ELSE <<>>
    IN  timeline \o budget \o location \o urgency

-----------------------------------------------------------------------------
(* GenericIntakeAgent: intent selection, inference, readiness              *)

SyntheticFallback == [id |-> "fallback_unknown", flow |-> <<>>]

IsAlways(it) == "always" \in DOMAIN it.match /\ it.match.always = TRUE

\* the rule test of _pick_intent for an intent that is not "always"
RuleMatch(it, t) ==
    LET kws    == Get(it.match, "keywords_any", <<>>)
        starts == Get(it.match, "starts_with_any", <<>>)
    IN  \/ \E i \in 1..Len(kws) : Contains(t, Lower(kws[i]))
        \/ \E i \in 1..Len(starts) : StartsWith(t, Lower(starts[i]))

\* the first element, in list order, of greatest priority: what a stable
\* sort(reverse=True) on the priority puts in front
FirstOfMaxPriority(intents, idxs) ==
    SetMin({i \in idxs : \A j \in idxs : Get(intents[j], "priority", 0)
                                          <= Get(intents[i], "priority", 0)})

\* returns the record after logging, and the chosen intent
_pick_intent(A, cfg, first_text) ==
    LET t == norm_lc(first_text)
        intents == cfg.intents
        always  == {i \in 1..Len(intents) : IsAlways(intents[i])}
        cands   == {i \in 1..Len(intents) : ~IsAlways(intents[i]) /\ RuleMatch(intents[i], t)}
        pq      == {i \in 1..Len(intents) : intents[i].id = "pre_quote_request"}
    IN  IF cands # {}
        THEN LET chosen == intents[FirstOfMaxPriority(intents, cands)]
             IN  [A |-> _log(A, <<"intent_selected", chosen.id, "rule_match">>), intent |-> chosen]
        ELSE IF pq # {}
        THEN [A |-> _log(A, <<"intent_selected", "pre_quote_request", "default">>),
              intent |-> intents[SetMin(pq)]]
        ELSE IF always # {}
        THEN LET chosen == intents[FirstOfMaxPriority(intents, always)]
             IN  [A |-> _log(A, <<"intent_selected", chosen.id, "always">>), intent |-> chosen]
        ELSE [A |-> _log(A, <<"intent_selected", "fallback_unknown", "no_match">>),
              intent |-> SyntheticFallback]

\* returns the record after logging, and the inferred canonical
_infer_service_type_from_text(A, cfg, text) ==
    LET tl    == norm_lc(text)
        table == NormTable(cfg, "service_type")
        cands == UNION { { <<i, j>> : j \in {j \in 1..Len(table[i].synonyms) :
                                /\ Strip(Lower(table[i].synonyms[j])) # <<>>
                                /\ Contains(tl, Strip(Lower(table[i].synonyms[j])))} } :
                         i \in 1..Len(table) }
        PhraseOf(c) == Strip(Lower(table[c[1]].synonyms[c[2]]))
        Before(c, e) == c[1] < e[1] \/ (c[1] = e[1] /\ c[2] <= e[2])
        best == CHOOSE c \in cands :
                    \A e \in cands :
                        \/ Len(PhraseOf(e)) < Len(PhraseOf(c))
                        \/ Len(PhraseOf(e)) = Len(PhraseOf(c)) /\ Before(c, e)
    IN  IF cands = {} THEN [A |-> A, canonical |-> NOT_PROVIDED]
        ELSE [A |-> _log(A, <<"service_type_inferred", table[best[1]].canonical, PhraseOf(best)>>),
              canonical |-> table[best[1]].canonical]

DefaultRequired == <<"issue_description", "service_type", "location">>

InSeq(x, s) == \E i \in 1..Len(s) : s[i] = x

_compute_missing_fields(A, required_fields0) ==
    LET required_fields == IF required_fields0 = <<>> THEN DefaultRequired ELSE required_fields0
        d == A.details
        issue == Get(A.memory.collected, "issue_description", <<>>)
        collected_st == Get(A.memory.collected, "service_type", <<>>)
        service_type == IF collected_st # <<>> THEN collected_st ELSE d.service_type
        m1 == IF InSeq("issue_description", required_fields)
                 /\ (norm_text(issue) = <<>> \/ issue = NOT_PROVIDED)
              THEN <<"issue_description">> ELSE <<>>
        m2 == IF InSeq("service_type", required_fields) /\ ~_is_valid_service_type(service_type)
              THEN <<"service_type">> ELSE <<>>
        m3 == IF InSeq("location", required_fields)
                 /\ (d.location = <<>> \/ d.location = NOT_PROVIDED)
              THEN <<"location">> ELSE <<>>
    IN  m1 \o m2 \o m3

_questions_for_missing(missing, intent) ==
    [i \in 1..Len(missing) |-> _question_for_field(intent, missing[i])]

_finalize(A, not_ready_fields, next_qs) ==
    [A EXCEPT !.readiness.status = "not_ready",
              !.readiness.missing_fields = not_ready_fields,
              !.readiness.notes = "more_information_required",
              !.handoff.recommended_action = "ask_follow_up",
              !.handoff.routing_hint = "human_review",
              !.handoff.next_questions = next_qs,
              !.memory.missing_fields = not_ready_fields]

DefaultHandoff == [recommended_action |-> "route_human", routing_hint |-> "human_review"]

_handoff_for_ready(cfg, intent) ==
    LET configured == Get(cfg.defaults, "handoff", EmptyDict)
        default_handoff == IF DOMAIN configured # {} THEN configured ELSE DefaultHandoff
        intent_handoff == Get(intent, "handoff", EmptyDict)
        rec == Get(intent_handoff, "recommended_action", "")
    IN  IF rec \in {"route_human", "completed"} THEN intent_handoff ELSE default_handoff

\* the "ready" branch of run()
MarkReady(A, cfg, intent) ==
    LET h == _handoff_for_ready(cfg, intent)
    IN  [A EXCEPT !.readiness.status = "ready",
                  !.readiness.notes = "sufficient_information",
                  !.handoff.recommended_action = Get(h, "recommended_action", "route_human"),
                  !.handoff.routing_hint = Get(h, "routing_hint", "human_review"),
                  !.handoff.next_questions = <<>>]

_done(A) == [A EXCEPT !.conversation_turns = A.turns]

-----------------------------------------------------------------------------
(* GenericIntakeAgent.run(): one action per input() the code blocks on.    *)
(* The operators below run the code from one input() to the next and       *)
(* return the record A, the locals R and the question asked (or None).     *)

MAX_FOLLOWUP_ROUNDS == 2
MAX_EMPTY_TRIES_PER_FIELD_IN_RUN == 2

\* a loop test that lets one more round through
LoopContinuesOneMore(missing, rounds) ==
    missing # <<>> /\ rounds < MAX_FOLLOWUP_ROUNDS + 1

\* the test "missing and rounds < self.MAX_FOLLOWUP_ROUNDS" of both loops
LoopContinues(missing, rounds) == missing # <<>> /\ rounds < MAX_FOLLOWUP_ROUNDS

\* _ask() up to the point where input() blocks
Blocked(A, R, pc, q) ==
    [A |-> [A EXCEPT !.turns = @ + 1], R |-> [R EXCEPT !.pc = pc], ask |-> Some(q)]

\* the lookup of the last intent at the top of run()
ResolveLastIntent(cfg, last_intent_id) ==
    LET intents == cfg.intents
        byId == {i \in 1..Len(intents) :
                    last_intent_id # None /\ intents[i].id = last_intent_id[1]}
        fb   == {i \in 1..Len(intents) : intents[i].id = "fallback_unknown"}
    IN  IF byId # {} THEN intents[SetMin(byId)]
        ELSE IF fb # {} THEN intents[SetMin(fb)]
        ELSE IF Len(intents) > 0 THEN intents[1]
        ELSE SyntheticFallback

\* the end of run(): finalize or mark ready, S5, _done()
Finish(A, R, cfg) ==
    LET A1 == IF R.missing # <<>>
              THEN _finalize(A, R.missing, _questions_for_missing(R.missing, R.intent))
              ELSE MarkReady(IF R.resumed THEN [A EXCEPT !.memory.missing_fields = <<>>] ELSE A,
                             cfg, R.intent)
    IN  [A |-> _done(_set_state(A1, "S5")), R |-> [R EXCEPT !.pc = "done"], ask |-> None]

\* one iteration of _ask_and_apply_followups up to its input()
AskFollowup(A, R, j) ==
    LET field == R.round[j]
        A1 == [A EXCEPT !.memory.attempts = Put(@, field, Get(@, field, 0) + 1)]
    IN  Blocked(A1, [R EXCEPT !.j = j], "followup", _question_for_field(R.intent, field))

\* the head of the follow-up loop
LoopHead(A, R, cfg) ==
    IF LoopContinues(R.missing, R.rounds)
    THEN AskFollowup(A, [R EXCEPT !.rounds = @ + 1, !.round = R.missing], 1)
    ELSE Finish(A, R, cfg)

\* the variant of the step below that records the opening phase again
EnterReadinessReopened(A, R, cfg) ==
    LET A1 == _set_state(A, "S1")
    IN  LoopHead(A1, [R EXCEPT !.missing = _compute_missing_fields(A1, R.required_fields),
                               !.rounds = 0], cfg)

\* self._set_state(S4) and the first readiness computation
EnterReadiness(A, R, cfg) ==
    LET A1 == _set_state(A, "S4")
    IN  LoopHead(A1, [R EXCEPT !.missing = _compute_missing_fields(A1, R.required_fields),
                               !.rounds = 0], cfg)

\* has the flow step's field a value already
\* a test that counts the prefilled location as still open
AlreadyButLocation(d, field) ==
    \/ field \in {"service_type", "urgency", "timeline", "budget_range"}
       /\ d[field] # NOT_PROVIDED
    \/ field = "constraints" /\ Len(d.constraints) > 0

Already(d, field) ==
    \/ field \in {"service_type", "urgency", "timeline", "location", "budget_range"}
       /\ d[field] # NOT_PROVIDED
    \/ field = "constraints" /\ Len(d.constraints) > 0

\* the flow loop from step k up to its next input()
RECURSIVE FlowAdvance(_, _, _, _)
FlowAdvance(A, R, cfg, k) ==
    LET flow == Flow(R.intent)
    IN  IF k > Len(flow) THEN EnterReadiness(A, R, cfg)
        ELSE LET step == flow[k]
                 R1 == IF step.required /\ step.field # ""
                       THEN [R EXCEPT !.required_fields = Append(@, step.field)]
                       ELSE R
             IN  IF step.field = "issue_description" \/ step.field = ""
                    \/ Already(A.details, step.field)
                 THEN FlowAdvance(A, R1, cfg, k + 1)
                 ELSE Blocked(A, [R1 EXCEPT !.i = k], "flow", <<step.question>>)

\* the prefill loop over the extracted fields
RECURSIVE ApplyPrefills(_, _, _)
ApplyPrefills(A, cfg, prefill) ==
    IF prefill = <<>> THEN A
    ELSE LET k == Head(prefill)[1]
             v == Head(prefill)[2]
             norm == CASE k = "timeline" -> "timeline" [] k = "budget_range" -> "budget"
                       [] k = "urgency" -> "urgency" [] OTHER -> "text"
             synthetic == [flow |-> << Step(k, FALSE, "", norm) >>]
         IN  ApplyPrefills(_apply_prefill(A, cfg, synthetic, k, v, NoExt), cfg, Tail(prefill))

\* a run() that ignores the persisted missing fields and always opens afresh
RunToFirstQuestionFresh(A, R, cfg) ==
    LET pq == {i \in 1..Len(cfg.intents) : cfg.intents[i].id = "pre_quote_request"}
        issue_q == IF pq # {} THEN _question_for_field(cfg.intents[SetMin(pq)], "issue_description")
                   ELSE <<"fallback_question", "issue_description">>
    IN  Blocked(_set_state(_set_state(A, "S0"), "S1"), R, "opening", issue_q)

\* run() from its first line to the first input()
RunToFirstQuestion(A, R, cfg) ==
    LET A0 == _set_state(A, "S0")
        pending == A0.memory.missing_fields
        last_intent == ResolveLastIntent(cfg, A0.memory.last_intent_id)
        pq == {i \in 1..Len(cfg.intents) : cfg.intents[i].id = "pre_quote_request"}
        issue_q == IF pq # {} THEN _question_for_field(cfg.intents[SetMin(pq)], "issue_description")
                   ELSE <<"fallback_question", "issue_description">>
    IN  IF pending # <<>>
        THEN Blocked([_set_state(A0, "S1") EXCEPT !.intent_id = last_intent.id],
                     [R EXCEPT !.resumed = TRUE, !.intent = last_intent, !.pending = pending,
                               !.required_fields = _required_fields_from_intent(last_intent),
                               !.i = 1],
                     "resume", _question_for_field(last_intent, pending[1]))
        ELSE Blocked(_set_state(A0, "S1"), R, "opening", issue_q)

\* service-type inference from the first message, then the flow loop
InferAndEnterFlow(A3, R, cfg, first_text, intent) ==
    LET Set(inf) ==
            FlowAdvance(_set_state(IF inf.canonical # NOT_PROVIDED
                                   THEN [inf.A EXCEPT
                                           !.memory.collected =
                                               Put(@, "service_type", inf.canonical),
                                           !.details.service_type = inf.canonical,
                                           !.summary = <<"Pre-quote for", inf.canonical>>]
                                   ELSE inf.A,
                                   "S2"),
                        [R EXCEPT !.intent = intent, !.required_fields = <<>>], cfg, 1)
    IN  Set(IF A3.details.service_type \in {<<>>, NOT_PROVIDED}
            THEN _infer_service_type_from_text(A3, cfg, first_text)
            ELSE [A |-> A3, canonical |-> NOT_PROVIDED])

\* intent selection over the first message
SelectIntent(A2, R, cfg, first_text) ==
    LET Selected(picked_A, intent) ==
            InferAndEnterFlow(
                [picked_A EXCEPT
                   !.memory.last_intent_id = Some(intent.id),
                   !.intent_id = intent.id,
                   !.request_type = "pre_quote",
                   !.service_category =
                       IF Get(intent, "service_category", "") # ""
                       THEN intent.service_category
                       ELSE Get(cfg.defaults, "service_category", "technical_services")],
                R, cfg, first_text, intent)
        Picked(picked) == Selected(picked.A, picked.intent)
    IN  Picked(_pick_intent(A2, cfg, first_text))

\* the prefill extracted from the first message, applied before the intent
\* is selected
PrefillFirstMessage(A1, R, cfg, first_text) ==
    LET Extracted(prefill) ==
            SelectIntent(IF prefill # <<>>
                         THEN ApplyPrefills(
                                  _log(A1, <<"prefill", "extracted_fields_from_first_message">>),
                                  cfg, prefill)
                         ELSE A1,
                         R, cfg, first_text)
    IN  Extracted(extract_prefill(first_text))

\* from the answer to the opening question to the next input()
AfterOpening(A, R, cfg, first_text) ==
    LET issue_intent == [flow |-> << Step("issue_description", FALSE, "", "text") >>]
    IN  PrefillFirstMessage(
            _apply_field(A, cfg, issue_intent, "issue_description", first_text, NoExt),
            R, cfg, first_text)

\* from the answer to flow step R.i to the next input()
AfterFlow(A, R, cfg, raw, ext) ==
    FlowAdvance(_apply_field(A, cfg, R.intent, Flow(R.intent)[R.i].field, raw, ext),
                R, cfg, R.i + 1)

\* from the answer to a persisted missing field to the next input()
AfterResume(A, R, cfg, raw, ext) ==
    LET Applied(A1) ==
            IF R.i < Len(R.pending)
            THEN Blocked(A1, [R EXCEPT !.i = @ + 1], "resume",
                         _question_for_field(R.intent, R.pending[R.i + 1]))
            ELSE EnterReadiness(A1, R, cfg)
    IN  Applied(_apply_field(A, cfg, R.intent, R.pending[R.i], raw, ext))

\* from the answer to a follow-up question to the next input()
AfterFollowup(A, R, cfg, raw, ext) ==
    LET field == R.round[R.j]
        Applied(A1) ==
            IF R.j < Len(R.round)
            THEN AskFollowup(A1, R, R.j + 1)
            ELSE LoopHead(A1,
                          [R EXCEPT !.missing = _compute_missing_fields(A1, R.required_fields)],
                          cfg)
    IN  Applied(IF raw = <<>> /\ A.memory.attempts[field] >= MAX_EMPTY_TRIES_PER_FIELD_IN_RUN
                THEN A
                ELSE _apply_field(A, cfg, R.intent, field, raw, ext))

-----------------------------------------------------------------------------
(* The session: cli.main() constructs an engine from the saved memory,    *)
(* runs it and saves the exported memory for the next invocation           *)

\* invocations of the program within one session
MaxRuns == 2

\* the scripted inputs of the two integration tests (fake_input returns ""
\* once the list is used up); "free" draws every answer from the sets below
Scripts ==
    [ happy |-> <<s_opening_happy, s_repair, s_urgent, s_Toronto, s_800, s_no>>,
      missing_location |-> <<s_opening_next_week, <<>>, <<>>, <<>> >> ]

RunConfigs == {"happy", "missing_location", "tax"}

ScriptsFor(c) == {"free"} \cup ({c} \cap DOMAIN Scripts)

OpeningAnswers == { <<>>, s_opening_happy, s_opening_next_week, s_opening_tax }

AnswersFor(field) ==
    CASE field = "issue_description" -> { <<>>, s_opening_next_week }
      [] field = "service_type" -> { <<>>, s_repair, s_yes }
      [] field = "urgency" -> { <<>>, s_urgent, s_not_sure }
      [] field = "timeline" -> { <<>>, s_next_week }
      [] field = "location" -> { <<>>, s_Toronto, s_tornto }
      [] field = "budget_range" -> { <<>>, s_800, s_lt50, s_40 }
      [] field = "constraints" -> { <<>>, s_no, s_open_until_6pm }
      [] OTHER -> { <<>>, s_2024 }

Suggest(s, c) == [kind |-> "json", suggestion |-> s, confidence |-> c]

\* what the correction client and the confirmation prompt can bring
LocationExts ==
    { NoExt,
      [NoExt EXCEPT !.reply = Suggest(s_Toronto, 90), !.confirm = <<s_yes, <<>> >>],
      [NoExt EXCEPT !.reply = Suggest(s_Toronto, 90), !.confirm = <<s_no, <<>> >>],
      [NoExt EXCEPT !.reply = Suggest(s_Toronto, 90), !.confirm = << <<>>, <<"y">> >>],
      [NoExt EXCEPT !.reply = Suggest(s_Toronto, 50), !.confirm = <<s_yes, <<>> >>] }

\* the correction client is only reached by a non-blank location answer
\* when the config enables it
ExtsFor(cfg, field, raw) ==
    IF cfg.llm_enabled /\ field = "location" /\ Strip(raw) # <<>> THEN LocationExts ELSE {NoExt}

NewRun(n, script) ==
    [ pc |-> "init", n |-> n, script |-> script, nin |-> 0,
      intent |-> SyntheticFallback, resumed |-> FALSE, pending |-> <<>>,
      required_fields |-> <<>>, missing |-> <<>>, rounds |-> 0, round |-> <<>>,
      i |-> 0, j |-> 0 ]

RunIdle == NewRun(0, "free")

OpIdle == [op |-> "none", n |-> 0]

NmIdle == [op |-> "none"]

\* input(): the next scripted answer, or any of the drawn ones
Typed(choices) ==
    IF run.script = "free" THEN choices
    ELSE { IF run.nin < Len(Scripts[run.script]) THEN Scripts[run.script][run.nin + 1]
           ELSE <<>> }

\* the field the engine is waiting on
AskedField(R) ==
    CASE R.pc = "opening" -> "issue_description"
      [] R.pc = "flow" -> Flow(R.intent)[R.i].field
      [] R.pc = "resume" -> R.pending[R.i]
      [] R.pc = "followup" -> R.round[R.j]

Commit(s) ==
    /\ agent' = s.A
    /\ run' = s.R
    /\ asked' = IF s.ask = None THEN asked
                ELSE Append(asked, [phase |-> s.R.pc, field |-> AskedField(s.R),
                                    question |-> s.ask[1]])
    /\ UNCHANGED <<config, previous, fh, lastOp, nm>>

Consumed(R) == [R EXCEPT !.nin = @ + 1]

Start ==
    /\ run.pc = "init"
    /\ \E s \in {RunToFirstQuestion(agent, run, Configs[config])} : Commit(s)

AnswerOpening ==
    /\ run.pc = "opening"
    /\ \E typed \in Typed(OpeningAnswers) :
          \E s \in {AfterOpening(agent, Consumed(run), Configs[config], Strip(typed))} :
             Commit(s)

AnswerFlow ==
    /\ run.pc = "flow"
    /\ \E typed \in Typed(AnswersFor(AskedField(run))) :
          \E ext \in ExtsFor(Configs[config], AskedField(run), typed) :
             \E s \in {AfterFlow(agent, Consumed(run), Configs[config], Strip(typed), ext)} :
                Commit(s)

AnswerResume ==
    /\ run.pc = "resume"
    /\ \E typed \in Typed(AnswersFor(AskedField(run))) :
          \E ext \in ExtsFor(Configs[config], AskedField(run), typed) :
             \E s \in {AfterResume(agent, Consumed(run), Configs[config], Strip(typed), ext)} :
                Commit(s)

AnswerFollowup ==
    /\ run.pc = "followup"
    /\ \E typed \in Typed(AnswersFor(AskedField(run))) :
          \E ext \in ExtsFor(Configs[config], AskedField(run), typed) :
             \E s \in {AfterFollowup(agent, Consumed(run), Configs[config], Strip(typed), ext)} :
                Commit(s)

\* the next invocation of the program for the same session id
NextInvocation ==
    /\ run.pc = "done"
    /\ run.script = "free"
    /\ run.n < MaxRuns
    /\ previous' = Some(export_state(agent))
    /\ agent' = NewAgent(Some(export_state(agent)))
    /\ run' = NewRun(run.n + 1, "free")
    /\ asked' = <<>>
    /\ UNCHANGED <<config, fh, lastOp, nm>>

Init ==
    /\ config \in RunConfigs
    /\ previous = None
    /\ agent = NewAgent(None)
    /\ run \in {NewRun(1, s) : s \in ScriptsFor(config)}
    /\ asked = <<>>
    /\ fh = NewAgent(None)
    /\ lastOp = OpIdle
    /\ nm = NmIdle

Next ==
    \/ Start
    \/ AnswerOpening
    \/ AnswerFlow
    \/ AnswerResume
    \/ AnswerFollowup
    \/ NextInvocation

Spec == Init /\ [][Next]_vars

\* ENABLED Next written out: run() blocks only in input(), every blocked
\* position has its answer action and the answer sets are never empty, and a
\* finished run is followed by another invocation while the session lasts
NextEnabled == run.pc # "done" \/ (run.script = "free" /\ run.n < MaxRuns)

\* weak fairness of Next, with its enabling condition as written above:
\* every question asked is eventually answered
Answered == []<>(~NextEnabled) \/ []<><<Next>>_vars

FairSpec == Spec /\ Answered


-----------------------------------------------------------------------------
(* consistency.py, intent_router.py and field_handlers.py: the extracted    *)
(* field-application component. It works on the same result record, memory  *)
(* and log as the engine, so its state has the engine's shape               *)

\* returns the record after logging, and whether the new value applies
keep_existing_on_conflict(F, field, current_value, new_value) ==
    IF current_value = NOT_PROVIDED THEN [F |-> F, applied |-> TRUE]
    ELSE IF current_value # new_value
    THEN [F |-> _log(_add_inconsistency(F, Conflict(field, current_value, new_value)),
                     <<"inconsistency", field, current_value, new_value>>),
          applied |-> FALSE]
    ELSE [F |-> F, applied |-> FALSE]

normalizer_for_field(intent, field) ==
    LET flow == Flow(intent)
        hits == {i \in 1..Len(flow) : flow[i].field = field}
    IN  IF hits # {} THEN flow[SetMin(hits)].normalize ELSE "text"

allowed_for_field(intent, field) ==
    LET fields == Get(intent, "fields", EmptyDict)
        spec   == Get(fields, field, EmptyDict)
    IN  Get(spec, "allowed", <<>>)

suggest_service_type_correction(value, allowed, cfg, reply) ==
    LET v == Strip(value)
    IN  IF ~cfg.llm_enabled THEN None
        ELSE IF v = <<>> THEN None
        ELSE IF reply.kind # "json" THEN None
        ELSE LET suggestion == Strip(reply.suggestion)
             IN  IF reply.confidence < 75 THEN None
                 ELSE IF suggestion = <<>> \/ IsNoSuggestion(suggestion) THEN None
                 ELSE IF suggestion \notin Range(allowed) THEN None
                 ELSE Some(suggestion)

\* {a.lower(): a for a in allowed}: a later entry replaces an earlier one
AllowedLc(allowed, key) ==
    allowed[SetMax({i \in 1..Len(allowed) : Lower(allowed[i]) = key})]

InAllowedLc(allowed, key) == \E i \in 1..Len(allowed) : Lower(allowed[i]) = key

AddLlmUsed(F, tag) ==
    [F EXCEPT !.sources.llm_used = IF tag \in Range(@) THEN @ ELSE Append(@, tag)]

FhLocation(F, cfg, raw, ext) ==
    LET Set(F1, val) ==
            LET Kept(res) ==
                    IF res.applied
                    THEN _log([res.F EXCEPT !.details.location = val],
                              <<"user_set", "location", val>>)
                    ELSE res.F
            IN  IF val = NOT_PROVIDED THEN F1
                ELSE Kept(keep_existing_on_conflict(F1, "location", F1.details.location, val))
        Corrected(corrected) ==
            IF corrected # None /\ corrected[1] # <<>>
            THEN Set(IF corrected[1] # raw
                     THEN _log(AddLlmUsed(F, "location_correction"),
                               <<"llm_suggestion_accepted", "location", corrected[1]>>)
                     ELSE F,
                     normalize_value("text", corrected[1], cfg))
            ELSE Set(F, normalize_value("text", raw, cfg))
    IN  Corrected(maybe_correct_location_with_confirmation(raw, cfg, ext))

\* the service_type branch once the value to store is known: val2 is the
\* value mapped to the allowed set, val the value after the validity test
FhStoreServiceType(F1, val2, val) ==
    LET Kept(res) ==
            IF res.applied
            THEN _log([res.F EXCEPT !.memory.collected = Put(@, "service_type", val),
                                    !.details.service_type = val,
                                    !.summary = <<"Service request", val>>],
                      <<"user_set", "service_type", val>>)
            ELSE res.F
    IN  IF val2 = NOT_PROVIDED THEN F1
        ELSE Kept(keep_existing_on_conflict(F1, "service_type", F1.details.service_type, val))

FhServiceType(F, cfg, raw, allowed, ext) ==
    LET yes == Lower(Strip(ext.st_confirm)) \in { <<"y">>, s_yes }
        Canonical(F1, val1) ==
            LET Valid(val2) ==
                    FhStoreServiceType(F1, val2,
                                       IF allowed = <<>> /\ ~is_valid_service_type(val2)
                                       THEN norm_text(raw)
                                       ELSE val2)
            IN  Valid(IF allowed # <<>> /\ InAllowedLc(allowed, Lower(val1))
                      THEN AllowedLc(allowed, Lower(val1)) ELSE val1)
        Suggested(val0, resp) ==
            IF resp = None THEN Canonical(F, val0)
            ELSE IF yes
            THEN Canonical(_log(AddLlmUsed(F, "service_type_correction"),
                                <<"llm_suggestion_accepted", "service_type", Strip(resp[1])>>),
                           Strip(resp[1]))
            ELSE Canonical(_log(F, <<"llm_suggestion_rejected", "service_type",
                                     Strip(resp[1])>>),
                           val0)
        Normalized(val0) ==
            Suggested(val0,
                      IF allowed # <<>> /\ val0 # NOT_PROVIDED
                         /\ ~InAllowedLc(allowed, Lower(val0))
                      THEN suggest_service_type_correction(val0, allowed, cfg, ext.st_reply)
                      ELSE None)
    IN  Normalized(normalize_value("service_type", raw, cfg))

\* the three branches chosen by normalizer_kind: the value is assigned
FhByKind(F, cfg, field, raw, kind, core) ==
    LET Set(val) ==
            IF val = NOT_PROVIDED THEN F
            ELSE IF field = core
            THEN _log([F EXCEPT !.details[core] = val], <<"user_set", core, val>>)
            ELSE _log([F EXCEPT !.details.extra_fields = Put(@, field, val)],
                      <<"user_set", "extra_fields", field, val>>)
    IN  Set(normalize_value(kind, raw, cfg))

apply_field(F, cfg, intent, field, raw, normalizer_kind, allowed, ext) ==
    LET SetConstraints(val) ==
            IF val # <<>>
            THEN _log([F EXCEPT !.details.constraints = Append(@, val)],
                      <<"user_set", "constraints", val>>)
            ELSE F
        SetIssue(val) ==
            _log([F EXCEPT !.memory.collected = Put(@, "issue_description", val),
                           !.details.issue_description = val],
                 <<"user_set", "issue_description">>)
        SetExtra(val) ==
            _log([F EXCEPT !.memory.collected = Put(@, field, val),
                           !.details.extra_fields = Put(@, field, val)],
                 <<"user_set", "extra_fields", field, val>>)
    IN
    IF norm_text(raw) = <<>> THEN F
    ELSE CASE field = "constraints" -> SetConstraints(normalize_constraints(raw, cfg))
           [] field = "issue_description" -> SetIssue(normalize_value("text", raw, cfg))
           [] field = "location" -> FhLocation(F, cfg, raw, ext)
           [] field = "service_type" -> FhServiceType(F, cfg, raw, allowed, ext)
           [] OTHER ->
                IF normalizer_kind = "urgency"
                THEN FhByKind(F, cfg, field, raw, "urgency", "urgency")
                ELSE IF normalizer_kind = "timeline"
                THEN FhByKind(F, cfg, field, raw, "timeline", "timeline")
                ELSE IF normalizer_kind = "budget"
                THEN FhByKind(F, cfg, field, raw, "budget", "budget_range")
                ELSE SetExtra(normalize_value(normalizer_kind, raw, cfg))

-----------------------------------------------------------------------------
(* Field application on its own: the same answers are applied to the       *)
(* engine's record by GenericIntakeAgent._apply_field and to a second      *)
(* record by FieldHandlers.apply_field                                     *)

\* answers applied in a row
MaxApply == 2

ApplyConfigs == {"happy", "tax", "closed_set"}

ApplyFields ==
    {"issue_description", "service_type", "urgency", "timeline", "location",
     "budget_range", "constraints", "tax_year"}

ApplyAnswers(field) ==
    CASE field = "issue_description" -> { <<>>, s_blank2, s_hi }
      [] field = "service_type" -> { s_blank2, s_repair, s_fix, s_rapair }
      [] field = "urgency" -> { s_blank2, s_urgent, s_asap, s_flexible }
      [] field = "timeline" -> { <<>>, s_today, s_next_week }
      [] field = "location" -> { s_blank2, s_Toronto, s_toronto, s_Berlin }
      [] field = "budget_range" -> { <<>>, s_40, s_800 }
      [] field = "constraints" -> { s_blank2, s_open_until_6pm, s_no }
      [] OTHER -> { <<>>, s_2024 }

\* what the two correction calls and their confirmation prompts can bring
ApplyExts(cfg, field, raw) ==
    IF ~cfg.llm_enabled \/ Strip(raw) = <<>> THEN {NoExt}
    ELSE IF field = "location"
    THEN { NoExt,
           [NoExt EXCEPT !.reply = Suggest(s_Toronto, 90), !.confirm = <<s_yes, <<>> >>] }
    ELSE IF field = "service_type"
    THEN { NoExt,
           [NoExt EXCEPT !.st_reply = Suggest(s_Repair, 90), !.st_confirm = s_yes],
           [NoExt EXCEPT !.st_reply = Suggest(s_Repair, 90), !.st_confirm = s_no] }
    ELSE {NoExt}

IntentsOf(cfg) == Range(cfg.intents)

\* one answer applied to both records
ApplyAnswer ==
    /\ lastOp.n < MaxApply
    /\ \E intent \in IntentsOf(Configs[config]), field \in ApplyFields :
         \E raw \in ApplyAnswers(field) :
            \E ext \in ApplyExts(Configs[config], field, raw) :
               /\ agent' = _apply_field(agent, Configs[config], intent, field, raw, ext)
               /\ fh' = apply_field(fh, Configs[config], intent, field, raw,
                                    normalizer_for_field(intent, field),
                                    allowed_for_field(intent, field), ext)
               /\ lastOp' = [op |-> "apply", n |-> lastOp.n + 1, field |-> field,
                             raw |-> raw, ext |-> ext, intent |-> intent.id,
                             prev |-> lastOp]
    /\ UNCHANGED <<config, previous, run, asked, nm>>

ApplyInit ==
    /\ config \in ApplyConfigs
    /\ previous = None
    /\ agent = NewAgent(None)
    /\ fh = NewAgent(None)
    /\ run = RunIdle
    /\ asked = <<>>
    /\ lastOp = OpIdle
    /\ nm = NmIdle

ApplyNext == ApplyAnswer

SpecApply == ApplyInit /\ [][ApplyNext]_vars

-----------------------------------------------------------------------------
(* Properties                                                              *)

IsBlank(raw) == \A i \in 1..Len(raw) : IsSpace(raw[i])

ConflictFields == {"service_type", "urgency", "timeline", "location", "budget_range"}

\* the kind each conflict-checked field is normalized with
KindOf(field) ==
    CASE field = "service_type" -> "service_type"
      [] field = "urgency" -> "urgency"
      [] field = "timeline" -> "timeline"
      [] field = "location" -> "text"
      [] field = "budget_range" -> "budget"

\* the engine's message for budget_range reads "budget_conflict"
NamesField(entry, field) ==
    entry.field = field \/ (field = "budget_range" /\ entry.field = "budget")

\* two answers in a row for the same field of a fresh record, with no
\* correction suggested
TwoAnswers ==
    /\ lastOp.op = "apply"
    /\ lastOp.n = 2
    /\ lastOp.field \in ConflictFields
    /\ lastOp.prev.field = lastOp.field
    /\ ~IsBlank(lastOp.raw) /\ ~IsBlank(lastOp.prev.raw)
    /\ lastOp.ext = NoExt /\ lastOp.prev.ext = NoExt

KeepEarliest(X) ==
    TwoAnswers =>
        LET f == lastOp.field
            a == normalize_value(KindOf(f), lastOp.prev.raw, Configs[config])
            b == normalize_value(KindOf(f), lastOp.raw, Configs[config])
            inc == X.readiness.inconsistencies
        IN  (a # NOT_PROVIDED /\ b # NOT_PROVIDED) =>
               /\ X.details[f] = a
               /\ (a = b => inc = <<>>)
               /\ (norm_lc(a) # norm_lc(b) => Len(inc) = 1 /\ NamesField(inc[1], f))

\* C1: for service_type, urgency, timeline, location and budget_range, an
\* answer normalizing to a followed by one normalizing to a different b
\* leaves the field at a with exactly one inconsistency entry naming the
\* field, and a followed by a leaves the field at a with no entry; stated for
\* the engine's handler and for FieldHandlers.apply_field
C1_KeepEarliest == KeepEarliest(agent) /\ KeepEarliest(fh)

\* what a blank answer must leave alone
Frame(X) ==
    <<X.details, X.readiness.inconsistencies, X.decision_log, X.sources, X.summary,
      X.memory.collected>>

\* C2: applying an empty or whitespace-only answer to any field changes
\* neither details, the inconsistency list, the decision log, sources,
\* summary nor the collected memory, in either handler
C2_BlankNoOp ==
    [][(lastOp'.n = lastOp.n + 1 /\ IsBlank(lastOp'.raw)) =>
          (Frame(agent') = Frame(agent) /\ Frame(fh') = Frame(fh))]_vars

\* a whitespace-only answer was applied to a field that holds a value
C2_Witness ==
    /\ lastOp.op = "apply" /\ lastOp.n = 2
    /\ lastOp.raw = s_blank2
    /\ lastOp.field = "urgency"
    /\ agent.details.urgency = s_urgent /\ fh.details.urgency = s_urgent
    /\ Len(agent.decision_log) = 1

C4_Idempotent ==
    nm.op = "normalize_value" =>
        /\ nm.again = nm.out
        /\ nm.agent_again = nm.agent_out

BudgetBands == <<s_lt50, s_50_100, s_100_300, s_300_500, s_500_1000>>

BandRank(b) == CHOOSE i \in 1..Len(BudgetBands) : BudgetBands[i] = b

BandOf(n) ==
    CASE n < 50 -> s_lt50
      [] 50 <= n /\ n <= 100 -> s_50_100
      [] 101 <= n /\ n <= 300 -> s_100_300
      [] 301 <= n /\ n <= 500 -> s_300_500
      [] n > 500 -> s_500_1000

\* the text is answered by no entry of the config's budget table: it equals
\* no synonym and is not a canonical name typed as it stands
NoSynonym(raw, c) ==
    /\ SynonymMatch(NormTable(Configs[c], "budget"), norm_lc(raw)) = None
    /\ norm_text(raw) \notin TableKeys(NormTable(Configs[c], "budget"))

\* C5: budget text matching no synonym whose first digit run is n gets
\* exactly the band of n (<50 below 50, 50-100 up to 100, 100-300 up to 300,
\* 300-500 up to 500, 500-1000 above), the band never decreases from n to
\* n + 1, and text without digits gets not_provided
C5_BudgetBands ==
    /\ (nm.op = "budget" /\ NoSynonym(nm.raw, nm.cfg)) =>
          /\ nm.out \in Range(BudgetBands)
          /\ nm.out = BandOf(nm.n)
          /\ nm.next \in Range(BudgetBands)
          /\ BandRank(nm.out) <= BandRank(nm.next)
    /\ (nm.op = "budget_no_digits" /\ NoSynonym(nm.raw, nm.cfg)) => nm.out = NOT_PROVIDED

\* the last amount of a band, inside a longer text
C5_Witness ==
    /\ nm.op = "budget"
    /\ nm.n = 100 /\ nm.pre = <<"$">> /\ nm.suf # <<>>
    /\ nm.out = s_50_100 /\ nm.next = s_100_300

FixedFields ==
    {"issue_description", "service_type", "urgency", "timeline", "location", "budget_range"}

\* has the field no value in the store it belongs to
ValueMissing(A, f) ==
    IF f \in FixedFields
    THEN Strip(A.details[f]) = <<>> \/ A.details[f] = NOT_PROVIDED
    ELSE \/ f \notin DOMAIN A.details.extra_fields
         \/ Strip(A.details.extra_fields[f]) = <<>>
         \/ A.details.extra_fields[f] = NOT_PROVIDED

\* the required fields without a value, in the order of the list
MissingOf(A, required) == SelectSeq(required, LAMBDA f : ValueMissing(A, f))

\* C6: the scripted run against the always-matching six-step flow ends with
\* service_type repair, urgency urgent, location Toronto, budget_range
\* 500-1000, no constraints and status ready
C6_HappyPath ==
    (run.script = "happy" /\ run.pc = "done") =>
        /\ agent.details.service_type = s_repair
        /\ agent.details.urgency = s_urgent
        /\ agent.details.location = s_Toronto
        /\ agent.details.budget_range = s_500_1000
        /\ agent.details.constraints = <<>>
        /\ agent.readiness.status = "ready"

\* C7: a run that ends with some required field still without a value ends
\* not_ready, with readiness.missing_fields and memory.missing_fields equal
\* to those fields, the action ask_follow_up and one question per field
C7_NotReady ==
    (run.pc = "done" /\ MissingOf(agent, run.required_fields) # <<>>) =>
        LET m == MissingOf(agent, run.required_fields)
        IN  /\ agent.readiness.status = "not_ready"
            /\ agent.readiness.missing_fields = m
            /\ agent.handoff.recommended_action = "ask_follow_up"
            /\ agent.handoff.next_questions =
                   [i \in 1..Len(m) |-> _question_for_field(run.intent, m[i])]
            /\ agent.memory.missing_fields = m

\* the handoff the ready branch is to select: the intent's when it recommends
\* route_human or completed, else the configured default
HandoffMatches(h, cfg, intent) ==
    LET ih == Get(intent, "handoff", EmptyDict)
        dh == Get(cfg.defaults, "handoff", EmptyDict)
    IN  IF Get(ih, "recommended_action", "") \in {"route_human", "completed"}
        THEN h.recommended_action = ih.recommended_action /\ h.routing_hint = ih.routing_hint
        ELSE DOMAIN dh # {} =>
               h.recommended_action = dh.recommended_action /\ h.routing_hint = dh.routing_hint

\* C8: a run that ends with no required field without a value ends ready,
\* with the handoff of the intent when that recommends route_human or
\* completed and the configured default otherwise, and no next questions
C8_ReadyHandoff ==
    (run.pc = "done" /\ MissingOf(agent, run.required_fields) = <<>>) =>
        /\ agent.readiness.status = "ready"
        /\ HandoffMatches(agent.handoff, Configs[config], run.intent)
        /\ agent.handoff.next_questions = <<>>

\* C9: the missing list computed at the end of a run is exactly the required
\* fields without a value, whatever their names
C9_ComputeMissing ==
    run.pc = "done" => run.missing = MissingOf(agent, run.required_fields)

Persisted == IF previous = None THEN <<>> ELSE previous[1].missing_fields

IsSelection(entry) == entry[1] = "intent_selected"

-----------------------------------------------------------------------------
(* intent_router.py and intent_matcher.py: the two other implementations   *)
(* of intent selection, and the lookup of an intent by id                  *)

\* +1 per keyword contained in t, +2 per prefix t starts with
Score(it, t) ==
    LET kws    == Get(it.match, "keywords_any", <<>>)
        starts == Get(it.match, "starts_with_any", <<>>)
    IN  Cardinality({i \in 1..Len(kws) : kws[i] # <<>> /\ Contains(t, Lower(kws[i]))})
        + 2 * Cardinality({i \in 1..Len(starts) :
                              starts[i] # <<>> /\ StartsWith(t, Lower(starts[i]))})

\* (score, priority) of a is not above that of b
ScoreLeq(sa, pa, sb, pb) == sa < sb \/ (sa = sb /\ pa <= pb)

\* IntentRouter.pick_intent: the chosen intent and the line it logs
pick_intent(cfg, first_text) ==
    LET intents == cfg.intents
        always  == {i \in 1..Len(intents) : IsAlways(intents[i])}
        fb      == {i \in 1..Len(intents) : intents[i].id = "fallback_unknown"}
        Chosen(it, tag) == [intent |-> it, log |-> <<"intent_selected", it.id, tag>>]
        Pick(t) ==
            LET Among(cands) ==
                    IF cands # {}
                    THEN Chosen(intents[SetMin({i \in cands : \A j \in cands :
                                    ScoreLeq(Score(intents[j], t),
                                             Get(intents[j], "priority", 0),
                                             Score(intents[i], t),
                                             Get(intents[i], "priority", 0))})],
                                "rule_match")
                    ELSE IF fb # {}
                    THEN [intent |-> intents[SetMin(fb)],
                          log |-> <<"intent_selected", "fallback_unknown", "no_match">>]
                    ELSE IF always # {}
                    THEN Chosen(intents[FirstOfMaxPriority(intents, always)], "always")
                    ELSE [intent |-> SyntheticFallback,
                          log |-> <<"intent_selected", "fallback_unknown", "no_intents">>]
            IN  Among({i \in 1..Len(intents) :
                          ~IsAlways(intents[i]) /\ Score(intents[i], t) > 0})
    IN  Pick(norm_lc(first_text))

\* intent_matcher.pick_intent: "always" intents are candidates like the
\* others, and nothing is logged
matcher_pick_intent(cfg, first_text) ==
    LET intents == cfg.intents
        Pick(t) ==
            LET Among(cands) ==
                    IF cands = {}
                    THEN IF Len(intents) > 0 THEN intents[1] ELSE SyntheticFallback
                    ELSE intents[FirstOfMaxPriority(intents, cands)]
            IN  Among({i \in 1..Len(intents) :
                          IsAlways(intents[i]) \/ RuleMatch(intents[i], t)})
    IN  Pick(Lower(Strip(first_text)))

\* IntentRouter.find_intent_by_id
find_intent_by_id(cfg, intent_id) ==
    LET hits == {i \in 1..Len(cfg.intents) :
                    intent_id # None /\ cfg.intents[i].id = intent_id[1]}
    IN  IF intent_id = None \/ hits = {} THEN None ELSE Some(cfg.intents[SetMin(hits)])

\* IntentRouter.fallback_intent
fallback_intent(cfg) ==
    LET fb == {i \in 1..Len(cfg.intents) : cfg.intents[i].id = "fallback_unknown"}
    IN  IF fb # {} THEN cfg.intents[SetMin(fb)]
        ELSE IF Len(cfg.intents) > 0 THEN cfg.intents[1]
        ELSE SyntheticFallback

-----------------------------------------------------------------------------
(* Intent selection calls: the three selectors and the resume lookup       *)
(* applied to drawn intent documents and opening texts                     *)

\* intents per drawn document
MaxIntents == 3

\* the intents the documents are made of: two rule intents (the one of lower
\* priority has the more keywords), two "always" intents and a configured
\* fallback_unknown without rules
RoutePool ==
    << [ id |-> "tax_help", priority |-> 1,
         match |-> [keywords_any |-> <<s_tax, s_vat>>], flow |-> <<>> ],
       [ id |-> "repair_help", priority |-> 10,
         match |-> [keywords_any |-> <<s_repair>>, starts_with_any |-> <<s_need>>],
         flow |-> <<>> ],
       [ id |-> "general", priority |-> 5, match |-> [always |-> TRUE], flow |-> <<>> ],
       [ id |-> "pre_quote_request", priority |-> 7, match |-> [always |-> TRUE],
         flow |-> <<>> ],
       [ id |-> "fallback_unknown", priority |-> 0, match |-> EmptyDict, flow |-> <<>> ] >>

\* every list of at most MaxIntents different intents of the pool
RouteDocs ==
    UNION { { [intents |-> [k \in 1..n |-> RoutePool[p[k]]]] :
                p \in {q \in [1..n -> 1..Len(RoutePool)] :
                          \A a, b \in 1..n : a # b => q[a] # q[b]} } :
            n \in 0..MaxIntents }

RouteTexts == { <<>>, s_hi, s_opening_tax, s_opening_next_week, s_tax_vat_repair, s_tax_repair }

\* the ids a saved memory can name: none, configured ones, one that is gone
LastIntentIds == { None, Some("tax_help"), Some("general"), Some("retired_intent") }

PickCall(doc, text) ==
    /\ nm.op = "none"
    /\ \E a \in {_pick_intent(NewAgent(None), doc, text)} :
          nm' = [ op |-> "pick_intent", doc |-> doc, text |-> text,
                  agent   |-> [intent |-> a.intent, logged |-> a.A.decision_log],
                  router  |-> pick_intent(doc, text),
                  matcher |-> matcher_pick_intent(doc, text) ]
    /\ UNCHANGED <<config, previous, agent, run, asked, fh, lastOp>>

ResumeLookupCall(doc, last_intent_id) ==
    /\ nm.op = "none"
    /\ \E found \in {find_intent_by_id(doc, last_intent_id)} :
          nm' = [ op |-> "resume_lookup", doc |-> doc, last_intent_id |-> last_intent_id,
                  agent   |-> ResolveLastIntent(doc, last_intent_id),
                  router  |-> IF found = None THEN fallback_intent(doc) ELSE found[1],
                  nomatch |-> pick_intent(doc, <<>>).intent ]
    /\ UNCHANGED <<config, previous, agent, run, asked, fh, lastOp>>

RouteInit ==
    /\ config = "tax"
    /\ previous = None
    /\ agent = NewAgent(None)
    /\ run = RunIdle
    /\ asked = <<>>
    /\ fh = NewAgent(None)
    /\ lastOp = OpIdle
    /\ nm = NmIdle

RouteNext ==
    \/ \E doc \in RouteDocs, text \in RouteTexts : PickCall(doc, text)
    \/ \E doc \in RouteDocs, id \in LastIntentIds : ResumeLookupCall(doc, id)

SpecRoute == RouteInit /\ [][RouteNext]_vars

-----------------------------------------------------------------------------
(* Properties of intent selection and of the resume lookup                 *)

\* the intent of greatest priority among those at the positions idxs
HighestPriority(intents, idxs) ==
    intents[CHOOSE i \in idxs : \A j \in idxs :
                Get(intents[j], "priority", 0) <= Get(intents[i], "priority", 0)]

\* the fallback stated for an opening text that matches no intent: the
\* configured fallback_unknown, else the "always" intent of highest priority,
\* else the synthetic empty intent
NoMatchFallback(doc) ==
    LET intents == doc.intents
        fb     == {i \in 1..Len(intents) : intents[i].id = "fallback_unknown"}
        always == {i \in 1..Len(intents) :
                      "always" \in DOMAIN intents[i].match /\ intents[i].match.always}
    IN  IF fb # {} THEN intents[CHOOSE i \in fb : TRUE]
        ELSE IF always # {} THEN HighestPriority(intents, always)
        ELSE [id |-> "fallback_unknown", flow |-> <<>>]

\* C11: on resume the active intent is the intent of the current config
\* whose id equals memory.last_intent_id, and when the config has no such
\* intent it is the one the no-match fallback gives; stated for the lookup of
\* run() and for IntentRouter.find_intent_by_id / fallback_intent
C11_ResumeIntent ==
    (nm.op = "resume_lookup" /\ nm.last_intent_id # None) =>
        LET intents == nm.doc.intents
            byId == {i \in 1..Len(intents) : intents[i].id = nm.last_intent_id[1]}
            expected == IF byId # {} THEN intents[CHOOSE i \in byId : TRUE]
                        ELSE NoMatchFallback(nm.doc)
        IN  nm.agent = expected /\ nm.router = expected

\* positions of the non-"always" intents of doc that score above 0 on text
Scored(doc, text) ==
    {i \in 1..Len(doc.intents) :
        ~IsAlways(doc.intents[i]) /\ Score(doc.intents[i], norm_lc(text)) > 0}

\* positions of the "always" intents of doc
AlwaysOf(doc) == {i \in 1..Len(doc.intents) : IsAlways(doc.intents[i])}

\* sel is an intent of doc that scores above 0 and whose (score, priority)
\* no scoring intent of doc exceeds
GreatestScored(doc, text, sel) ==
    \E i \in Scored(doc, text) :
        /\ doc.intents[i] = sel
        /\ \A j \in Scored(doc, text) :
              ScoreLeq(Score(doc.intents[j], norm_lc(text)),
                       Get(doc.intents[j], "priority", 0),
                       Score(doc.intents[i], norm_lc(text)),
                       Get(doc.intents[i], "priority", 0))

\* C12: when some intent scores above 0 (+1 per keyword contained in the
\* lower-cased trimmed opening text, +2 per prefix it starts with), the intent
\* selected by IntentRouter.pick_intent and by GenericIntakeAgent._pick_intent
\* is a scoring intent of greatest (score, priority), score compared first
C12_GreatestScore ==
    (nm.op = "pick_intent" /\ Scored(nm.doc, nm.text) # {}) =>
        /\ GreatestScored(nm.doc, nm.text, nm.router.intent)
        /\ GreatestScored(nm.doc, nm.text, nm.agent.intent)

\* doc configures exactly one "always" intent and one keyword intent
OneAlwaysOneKeyword(doc) ==
    /\ Len(doc.intents) = 2
    /\ Cardinality(AlwaysOf(doc)) = 1
    /\ \E i \in 1..2 : /\ ~IsAlways(doc.intents[i])
                       /\ Get(doc.intents[i].match, "keywords_any", <<>>) # <<>>

\* C13: with one "always" intent and one keyword intent configured, each of
\* the three selectors returns the keyword intent when one of its keywords
\* occurs in the opening text, whatever the two priorities, and the "always"
\* intent when the keyword intent does not score
C13_KeywordBeatsAlways ==
    (nm.op = "pick_intent" /\ OneAlwaysOneKeyword(nm.doc)) =>
        LET intents == nm.doc.intents
            a == CHOOSE i \in 1..2 : IsAlways(intents[i])
            k == 3 - a
            expected == IF \E n \in 1..Len(intents[k].match.keywords_any) :
                              /\ intents[k].match.keywords_any[n] # <<>>
                              /\ Contains(norm_lc(nm.text),
                                          Lower(intents[k].match.keywords_any[n]))
                        THEN intents[k]
                        ELSE IF Score(intents[k], norm_lc(nm.text)) = 0 THEN intents[a]
                        ELSE nm.router.intent
        IN  /\ nm.router.intent = expected
            /\ nm.agent.intent = expected
            /\ nm.matcher = expected

\* C14: when no intent scores above 0, each of the three selectors returns
\* the configured fallback_unknown intent if there is one, else the "always"
\* intent of highest priority, else the synthetic intent fallback_unknown
\* with an empty flow
C14_NoMatchFallback ==
    (nm.op = "pick_intent" /\ Scored(nm.doc, nm.text) = {}) =>
        /\ nm.router.intent = NoMatchFallback(nm.doc)
        /\ nm.agent.intent = NoMatchFallback(nm.doc)
        /\ nm.matcher = NoMatchFallback(nm.doc)

\* the reason tag stated for a selection of doc on text
ExpectedTag(doc, text) ==
    IF Scored(doc, text) # {} THEN "rule_match"
    ELSE IF \E i \in 1..Len(doc.intents) : doc.intents[i].id = "fallback_unknown"
    THEN "no_match"
    ELSE IF AlwaysOf(doc) # {} THEN "always"
    ELSE "no_intents"

\* C15: a selection by GenericIntakeAgent._pick_intent appends exactly one
\* entry to the decision log, IntentRouter.pick_intent logs one line, and the
\* reason tag of both is rule_match when an intent scored above 0, no_match
\* when the configured fallback_unknown is used, always when an "always"
\* intent is used, no_intents when the synthetic fallback is used
C15_OneTaggedEntry ==
    nm.op = "pick_intent" =>
        /\ Len(nm.agent.logged) = 1
        /\ nm.agent.logged[1][1] = "intent_selected"
        /\ nm.agent.logged[1][3] = ExpectedTag(nm.doc, nm.text)
        /\ nm.router.log[1] = "intent_selected"
        /\ nm.router.log[3] = ExpectedTag(nm.doc, nm.text)

-----------------------------------------------------------------------------
(* cli.py: one process per invocation of main(); the session file carries  *)
(* the exported memory from one process to the next                        *)

\* config paths whose file load_intent_config refuses
BadConfigFiles == {"absent", "not_json", "empty", "no_intents", "intents_not_list"}

\* the config paths main() is started with
CliConfigs == {"missing_location"} \cup BadConfigFiles

\* the file at a config path: whether it exists, and json.load of it (None
\* when the text is not JSON) as the keys of the document and whether its
\* "intents" is a list
ConfigFile(c) ==
    CASE c = "absent" -> [exists |-> FALSE, json |-> None]
      [] c = "not_json" -> [exists |-> TRUE, json |-> None]
      [] c = "empty" -> [exists |-> TRUE, json |-> Some([keys |-> {}, intents_list |-> FALSE])]
      [] c = "no_intents" ->
            [exists |-> TRUE, json |-> Some([keys |-> {"defaults"}, intents_list |-> FALSE])]
      [] c = "intents_not_list" ->
            [exists |-> TRUE, json |-> Some([keys |-> {"intents"}, intents_list |-> FALSE])]
      [] OTHER ->
            [exists |-> TRUE,
             json |-> Some([keys |-> {"intents", "defaults", "normalizers"},
                            intents_list |-> TRUE])]

\* cli.load_intent_config without the checks of the parsed document
load_intent_config_unvalidated(file) ==
    IF ~file.exists THEN [ok |-> FALSE, error |-> "FileNotFoundError: not found"]
    ELSE IF file.json = None THEN [ok |-> FALSE, error |-> "ValueError: not valid JSON"]
    ELSE [ok |-> TRUE, error |-> "none"]

\* cli.load_intent_config: the exception it raises, or none
load_intent_config(file) ==
    IF ~file.exists THEN [ok |-> FALSE, error |-> "FileNotFoundError: not found"]
    ELSE IF file.json = None THEN [ok |-> FALSE, error |-> "ValueError: not valid JSON"]
    ELSE IF file.json[1].keys = {} THEN [ok |-> FALSE, error |-> "ValueError: empty"]
    ELSE IF "intents" \notin file.json[1].keys \/ ~file.json[1].intents_list
    THEN [ok |-> FALSE, error |-> "ValueError: missing 'intents' list"]
    ELSE [ok |-> TRUE, error |-> "none"]

\* config_loader.load_intent_config, which main() does not call: the document
\* is returned as parsed, whatever it holds
loader_load_intent_config(file) ==
    IF ~file.exists THEN [ok |-> FALSE, error |-> "FileNotFoundError: not found"]
    ELSE IF file.json = None THEN [ok |-> FALSE, error |-> "JSONDecodeError"]
    ELSE [ok |-> TRUE, error |-> "none"]

\* a process at the top of main(): what it did so far (events), its exit
\* code once it returned, and how the process before it ended
NewProcess(ended) == [op |-> "main", n |-> 0, events |-> <<>>, code |-> None, ended |-> ended]

Did(events) == [lastOp EXCEPT !.events = @ \o events]

Returned(events, code) == [lastOp EXCEPT !.events = @ \o events, !.code = Some(code)]

\* main() up to the session id prompt: the sessions directory is made, then
\* the config is loaded; a refused config is reported and main returns 1
LoadConfig ==
    /\ run.pc = "main"
    /\ \E r \in {load_intent_config(ConfigFile(config))} :
          IF r.ok
          THEN /\ run' = [run EXCEPT !.pc = "session_id"]
               /\ lastOp' = Did(<<"makedirs">>)
          ELSE /\ run' = [run EXCEPT !.pc = "exit"]
               /\ lastOp' = Returned(<<"makedirs", "print_error">>, 1)
    /\ UNCHANGED <<config, previous, agent, asked, fh, nm>>

\* the session id is typed, the session file (held in previous) is read and
\* the engine is constructed from it
ChooseSession ==
    /\ run.pc = "session_id"
    /\ agent' = NewAgent(previous)
    /\ run' = [run EXCEPT !.pc = "init"]
    /\ lastOp' = Did(<<"input_session_id", "read_session", "construct">>)
    /\ UNCHANGED <<config, previous, asked, fh, nm>>

\* save_session(session_id, agent.export_state()); fh keeps the request
\* details and the memory of the engine as the process leaves it
SaveSession ==
    /\ previous' = Some(export_state(agent))
    /\ fh' = [NewAgent(None) EXCEPT !.details = agent.details,
                                    !.memory = export_state(agent)]
    /\ agent' = [agent EXCEPT !.memory = export_state(agent)]

\* run() returned: the result is printed, the session saved, main returns 0
ReturnResult ==
    /\ run.pc = "done"
    /\ SaveSession
    /\ run' = [run EXCEPT !.pc = "exit"]
    /\ lastOp' = Returned(<<"print_result", "write_session">>, 0)
    /\ UNCHANGED <<config, asked, nm>>

\* Ctrl+C while run() waits in input(): the session is saved, main returns 130
Interrupt ==
    /\ run.pc \in {"opening", "flow", "resume", "followup"}
    /\ SaveSession
    /\ run' = [run EXCEPT !.pc = "exit"]
    /\ lastOp' = Returned(<<"write_session">>, 130)
    /\ UNCHANGED <<config, asked, nm>>

\* the program is started again with the same config path and session id
Reinvoke ==
    /\ run.pc = "exit"
    /\ run.n < MaxRuns
    /\ run' = [NewRun(run.n + 1, "free") EXCEPT !.pc = "main"]
    /\ lastOp' = NewProcess(CASE lastOp.code = Some(0) -> "finished"
                              [] lastOp.code = Some(130) -> "interrupted"
                              [] OTHER -> "config_error")
    /\ asked' = <<>>
    /\ UNCHANGED <<config, previous, agent, fh, nm>>

CliInit ==
    /\ config \in CliConfigs
    /\ previous = None
    /\ agent = NewAgent(None)
    /\ run = [NewRun(1, "free") EXCEPT !.pc = "main"]
    /\ asked = <<>>
    /\ fh = NewAgent(None)
    /\ lastOp = NewProcess("none")
    /\ nm = NmIdle

CliNext ==
    \/ LoadConfig
    \/ ChooseSession
    \/ Start
    \/ AnswerOpening
    \/ AnswerFlow
    \/ AnswerResume
    \/ AnswerFollowup
    \/ ReturnResult
    \/ Interrupt
    \/ Reinvoke

SpecCli == CliInit /\ [][CliNext]_vars

-----------------------------------------------------------------------------
(* Properties of the session across processes                              *)

ScalarFields ==
    {"issue_description", "service_type", "urgency", "timeline", "location", "budget_range"}

\* the fields the engine A holds a value for
AcceptedFields(A) ==
    {f \in ScalarFields : A.details[f] # NOT_PROVIDED} \cup DOMAIN A.memory.collected

AcceptedValue(A, f) ==
    IF f \in ScalarFields THEN A.details[f] ELSE A.memory.collected[f]

\* the process before this one was interrupted at a question, and this one
\* has constructed its engine from the session it saved
AfterInterrupt ==
    /\ lastOp.ended = "interrupted"
    /\ run.pc \in {"init", "opening", "flow", "resume", "followup", "done", "exit"}

\* C16: when run() is interrupted at a question, the memory that is saved
\* holds every field value the engine accepted so far, and the engine that
\* the next process seeds from it neither asks for such a field again nor
\* reports it missing
C16_InterruptKeepsAnswers ==
    AfterInterrupt =>
        \A f \in AcceptedFields(fh) :
            /\ f \in DOMAIN previous[1].collected
            /\ previous[1].collected[f] = AcceptedValue(fh, f)
            /\ \A i \in 1..Len(asked) : asked[i].field # f
            /\ ~InSeq(f, agent.readiness.missing_fields)

\* C17: in a run resumed from the saved memory, a field that the earlier run
\* of the session set to a does not come to hold a value b different from a:
\* the earlier value is the one kept
C17_KeepEarliestResumed ==
    (lastOp.ended \in {"finished", "interrupted"} /\ run.resumed) =>
        \A f \in ConflictFields :
            (fh.details[f] # NOT_PROVIDED /\ agent.details[f] # NOT_PROVIDED) =>
                agent.details[f] = fh.details[f]

\* C20: a process whose config file is absent, is not JSON, is empty or has
\* no "intents" list has returned 1 once it is past the loading of the
\* config, having made the sessions directory and reported the error and
\* nothing else: no prompt, no engine, no session file read or written
C20_ConfigErrorExits ==
    (config \in BadConfigFiles /\ run.pc # "main") =>
        /\ run.pc = "exit"
        /\ lastOp.code = Some(1)
        /\ lastOp.events = <<"makedirs", "print_error">>
        /\ asked = <<>>
        /\ previous = None

\* a process that was given a config without an "intents" list and returned
C20_Witness ==
    /\ config = "no_intents"
    /\ run.pc = "exit"
    /\ lastOp.code = Some(1)

-----------------------------------------------------------------------------
(* Two engines constructed from one previous-state mapping, their steps    *)
(* interleaved: agent is the first engine, fh the second, previous the     *)
(* mapping both constructors were given                                    *)

\* steps taken by the two engines together
MaxSteps == 3

\* memory.update(previous_state) copies the keys, not the values: the dicts
\* under these keys of previous_state become the engine's own
AliasedKeys(previous_state) ==
    IF previous_state = None THEN {}
    ELSE {"collected", "attempts"} \cap DOMAIN previous_state[1]

\* the mapping m as it reads once the dicts under keys hold what they hold
\* in written
SeenThrough(m, written, keys) ==
    [k \in DOMAIN m |-> IF k \in keys THEN written[k] ELSE m[k]]

\* the mappings an engine can be constructed from
PreviousStates ==
    { None,
      Some([last_state |-> "S5"]),
      Some([missing_fields |-> <<"location">>, collected |-> EmptyDict,
            attempts |-> EmptyDict, last_state |-> "S5",
            last_intent_id |-> Some("tax_help")]),
      Some([missing_fields |-> <<>>, collected |-> [issue_description |-> s_hi],
            last_state |-> "S5", last_intent_id |-> Some("tax_help")]) }

SharedFields == {"issue_description", "service_type", "location", "tax_year"}

\* engine e went from X to X2; the other engine and the constructor's
\* argument read the dicts they share with it
EngineStepped(e, X2, what) ==
    LET keys == AliasedKeys(previous)
    IN  /\ agent' = IF e = 1 THEN X2
                    ELSE [agent EXCEPT !.memory = SeenThrough(@, X2.memory, keys)]
        /\ fh' = IF e = 2 THEN X2
                 ELSE [fh EXCEPT !.memory = SeenThrough(@, X2.memory, keys)]
        /\ previous' = IF previous = None THEN None
                       ELSE Some(SeenThrough(previous[1], X2.memory, keys))
        /\ lastOp' = [op |-> what, n |-> lastOp.n + 1, engine |-> e]
        /\ UNCHANGED <<config, run, asked, nm>>

Engine(e) == IF e = 1 THEN agent ELSE fh

\* an answer applied by one engine
FieldStep(e) ==
    /\ lastOp.n < MaxSteps
    /\ \E intent \in IntentsOf(Configs[config]), field \in SharedFields :
         \E raw \in ApplyAnswers(field) :
            EngineStepped(e, _apply_field(Engine(e), Configs[config], intent, field, raw,
                                          NoExt),
                          "apply")

\* _ask_and_apply_followups counting a follow-up question for a field
AttemptStep(e) ==
    /\ lastOp.n < MaxSteps
    /\ \E field \in SharedFields :
          EngineStepped(e, [Engine(e) EXCEPT !.memory.attempts =
                                                Put(@, field, Get(@, field, 0) + 1)],
                        "attempt")

\* export_state() of one engine
ExportStep(e) ==
    /\ lastOp.n < MaxSteps
    /\ EngineStepped(e, [Engine(e) EXCEPT !.memory = export_state(Engine(e))], "export")

SharedInit ==
    /\ config \in {"tax", "happy"}
    /\ previous \in PreviousStates
    /\ agent = NewAgent(previous)
    /\ fh = NewAgent(previous)
    /\ run = RunIdle
    /\ asked = <<>>
    /\ lastOp = [op |-> "none", n |-> 0, engine |-> 0]
    /\ nm = NmIdle

SharedNext ==
    \/ \E e \in {1, 2} : FieldStep(e)
    \/ \E e \in {1, 2} : AttemptStep(e)
    \/ \E e \in {1, 2} : ExportStep(e)

SpecShared == SharedInit /\ [][SharedNext]_vars

\* C18: no step of one engine changes the result record or the memory of
\* the other engine, and no step changes the previous-state mapping the
\* constructors were given
C18_NoSharedState ==
    [][ /\ (lastOp'.engine = 1 => fh' = fh)
        /\ (lastOp'.engine = 2 => agent' = agent)
        /\ previous' = previous ]_vars

-----------------------------------------------------------------------------
(* llm_client.py with the external call as an input: what                  *)
(* self._client.responses.create does, and what json.loads makes of its    *)
(* output text                                                             *)

\* data.get("confidence", 0): absent, a value float() refuses, or a number
\* (in hundredths)
Confidences ==
    { [given |-> FALSE, numeric |-> FALSE, val |-> 0],
      [given |-> TRUE, numeric |-> FALSE, val |-> 0] }
    \cup { [given |-> TRUE, numeric |-> TRUE, val |-> v] : v \in {0, 74, 75, 90} }

\* the call raises, or returns a text that is empty, is not JSON, is a JSON
\* array or scalar, or is a JSON object
LlmOutcomes ==
    { [kind |-> k] : k \in {"exception", "empty", "not_json", "array", "scalar"} }
    \cup { [kind |-> "object", suggestion |-> s, confidence |-> c] :
              s \in {s_Toronto, s_Repair, s_NO_SUGGESTION}, c \in Confidences }

\* LLMClient._call_text: "" on any exception
_call_text(out) == IF out.kind = "exception" THEN [kind |-> "empty"] ELSE out

\* float(data.get("confidence", 0) or 0), 0.0 when float() raises
ConfidenceOf(c) == IF c.given /\ c.numeric THEN c.val ELSE 0

\* the parsed reply the suggesters go on with
ReplyOf(out) ==
    IF out.kind = "object" THEN Suggest(out.suggestion, ConfidenceOf(out.confidence))
    ELSE NoReply

Returns(resp) == [raised |-> "none", resp |-> resp]

Raises(exc) == [raised |-> exc, resp |-> None]

\* LLMClient.suggest_location_correction from the call on: json.loads is
\* inside try/except, data.get is not
suggest_location_correction_call(value, cfg, out) ==
    LET Parsed(text) ==
            IF ~cfg.llm_enabled \/ Strip(value) = <<>> THEN Returns(None)
            ELSE IF text.kind \in {"empty", "not_json"} THEN Returns(None)
            ELSE IF text.kind # "object" THEN Raises("AttributeError")
            ELSE Returns(suggest_location_correction(value, cfg, ReplyOf(text)))
    IN  Parsed(_call_text(out))

\* LLMClient.suggest_service_type_correction, likewise
suggest_service_type_correction_call(value, allowed, cfg, out) ==
    LET Parsed(text) ==
            IF ~cfg.llm_enabled \/ Strip(value) = <<>> THEN Returns(None)
            ELSE IF text.kind \in {"empty", "not_json"} THEN Returns(None)
            ELSE IF text.kind # "object" THEN Raises("AttributeError")
            ELSE Returns(suggest_service_type_correction(value, allowed, cfg, ReplyOf(text)))
    IN  Parsed(_call_text(out))

LlmAnswers(field) ==
    IF field = "location" THEN {s_tornto, s_toronto} ELSE {s_rapair, s_fix}

\* a location answer given to the engine: an exception of the suggester
\* leaves _apply_field before anything is assigned
LocationAnswer ==
    /\ lastOp.n < MaxApply
    /\ \E raw \in LlmAnswers("location"), out \in LlmOutcomes, ans \in {s_yes, s_no} :
         \E r \in {suggest_location_correction_call(Strip(raw), Configs[config], out)} :
            /\ agent' = IF r.raised # "none" THEN agent
                        ELSE _apply_field(agent, Configs[config], Configs[config].intents[1],
                                          "location", raw,
                                          [NoExt EXCEPT !.reply = ReplyOf(out),
                                                        !.confirm = <<ans, <<>> >>])
            /\ lastOp' = [op |-> "location", n |-> lastOp.n + 1, raw |-> raw, out |-> out,
                          raised |-> r.raised, resp |-> r.resp, before |-> agent]
            /\ UNCHANGED <<config, previous, run, asked, fh, nm>>

\* a service type answer given to FieldHandlers.apply_field with the closed
\* set of the intent; the suggester is called for a value outside the set
ServiceTypeAnswer ==
    /\ lastOp.n < MaxApply
    /\ \E raw \in LlmAnswers("service_type"), out \in LlmOutcomes, ans \in {s_yes, s_no} :
         \E intent \in {Configs[config].intents[1]} :
            \E r \in {suggest_service_type_correction_call(
                          normalize_value("service_type", raw, Configs[config]),
                          allowed_for_field(intent, "service_type"), Configs[config], out)} :
               /\ fh' = IF r.raised # "none" THEN fh
                        ELSE apply_field(fh, Configs[config], intent, "service_type", raw,
                                         normalizer_for_field(intent, "service_type"),
                                         allowed_for_field(intent, "service_type"),
                                         [NoExt EXCEPT !.st_reply = ReplyOf(out),
                                                       !.st_confirm = ans])
               /\ lastOp' = [op |-> "service_type", n |-> lastOp.n + 1, raw |-> raw,
                             out |-> out, raised |-> r.raised, resp |-> r.resp,
                             before |-> fh]
               /\ UNCHANGED <<config, previous, agent, run, asked, nm>>

LlmInit ==
    /\ config = "closed_set"
    /\ previous = None
    /\ agent = NewAgent(None)
    /\ fh = NewAgent(None)
    /\ run = RunIdle
    /\ asked = <<>>
    /\ lastOp = OpIdle
    /\ nm = NmIdle

LlmNext == LocationAnswer \/ ServiceTypeAnswer

SpecLlm == LlmInit /\ [][LlmNext]_vars

\* the outcomes after which no suggestion is to be made
NoSuggestionOutcome(out) ==
    \/ out.kind # "object"
    \/ ~out.confidence.given
    \/ ~out.confidence.numeric
    \/ out.confidence.val < 75
    \/ IsNoSuggestion(out.suggestion)

\* C19: when the external call raises, returns nothing, returns a text that
\* is not JSON or not a JSON object, gives no usable confidence or one below
\* 0.75, or answers NO_SUGGESTION, the suggester raises nothing and returns
\* no suggestion, and the field is applied as it is with the raw answer and
\* no correction
C19_FailureIsNoSuggestion ==
    (lastOp.op \in {"location", "service_type"} /\ NoSuggestionOutcome(lastOp.out)) =>
        /\ lastOp.raised = "none"
        /\ lastOp.resp = None
        /\ lastOp.op = "location" =>
              agent = _apply_field(lastOp.before, Configs[config],
                                   Configs[config].intents[1], "location", lastOp.raw, NoExt)
        /\ lastOp.op = "service_type" =>
              fh = apply_field(lastOp.before, Configs[config], Configs[config].intents[1],
                               "service_type", lastOp.raw,
                               normalizer_for_field(Configs[config].intents[1], "service_type"),
                               allowed_for_field(Configs[config].intents[1], "service_type"),
                               NoExt)

-----------------------------------------------------------------------------
(* cli.py: the session file. A file is absent (None) or holds a text, a     *)
(* sequence of JSON tokens; save_session is followed step by step, and the *)
(* process can stop between any two of its steps                           *)

MemoryKeys ==
    <<"missing_fields", "collected", "attempts", "last_state", "last_intent_id">>

\* json.dump(data, f): the tokens written, in order
Dump(data) ==
    <<"{">>
    \o << "missing_fields", data.missing_fields, "collected", data.collected,
          "attempts", data.attempts, "last_state", data.last_state,
          "last_intent_id", data.last_intent_id >>
    \o <<"}">>

\* json.load(f): the mapping of a complete text, None for a text json
\* refuses (JSONDecodeError)
Load(text) ==
    IF /\ Len(text) = 2 * Len(MemoryKeys) + 2
       /\ text[1] = "{"
       /\ text[Len(text)] = "}"
       /\ \A i \in 1..Len(MemoryKeys) : text[2 * i] = MemoryKeys[i]
    THEN Some([k \in Range(MemoryKeys) |->
                 text[2 * (CHOOSE i \in 1..Len(MemoryKeys) : MemoryKeys[i] = k) + 1]])
    ELSE None

session_path == "sessions/sess_local_001.json"

\* path + ".tmp", written in the variant below as the path itself
tmp_path_in_place(path) == path

\* tmp_path = path + ".tmp"
tmp_path(path) == "sessions/sess_local_001.json.tmp"

\* load_session: None when there is no file or its text is not JSON
load_session(files, path) ==
    IF files[path] = None THEN None ELSE Load(files[path][1])

\* the memories export_state hands to save_session
SavedMemories ==
    { DefaultMemory,
      [DefaultMemory EXCEPT !.last_state = "S5",
                            !.last_intent_id = Some("pre_quote_request"),
                            !.collected = [issue_description |-> s_hi]],
      [DefaultMemory EXCEPT !.last_state = "S5",
                            !.last_intent_id = Some("pre_quote_request"),
                            !.missing_fields = <<"location">>,
                            !.attempts = [location |-> 2]] }

Prefixes(text) == {SubSeq(text, 1, n) : n \in 0..Len(text)}

\* the two files before a save: a session saved earlier or none, and a
\* temporary file an earlier process left behind or none
FilesBefore ==
    { [f \in {session_path, tmp_path(session_path)} |->
          IF f = session_path THEN old ELSE tmp] :
      old \in {None} \cup {Some(Dump(m)) : m \in SavedMemories},
      tmp \in {None} \cup {Some(t) : t \in Prefixes(Dump(DefaultMemory))} }

\* ensure_sessions_dir()
SaveMakeDirs ==
    /\ nm.op = "save_session" /\ nm.pc = "makedirs"
    /\ nm' = [nm EXCEPT !.pc = "open"]
    /\ UNCHANGED <<config, previous, agent, run, asked, fh, lastOp>>

\* open(tmp_path, "w") creates the file or empties it
SaveOpen ==
    /\ nm.op = "save_session" /\ nm.pc = "open"
    /\ nm' = [nm EXCEPT !.pc = "dump", !.files[tmp_path(session_path)] = Some(<<>>)]
    /\ UNCHANGED <<config, previous, agent, run, asked, fh, lastOp>>

\* json.dump writes the next token
SaveWrite ==
    /\ nm.op = "save_session" /\ nm.pc = "dump"
    /\ Len(nm.files[tmp_path(session_path)][1]) < Len(Dump(nm.data))
    /\ nm' = [nm EXCEPT !.files[tmp_path(session_path)] =
                 Some(Append(@[1], Dump(nm.data)[Len(@[1]) + 1]))]
    /\ UNCHANGED <<config, previous, agent, run, asked, fh, lastOp>>

\* the with block is left and the file closed
SaveClose ==
    /\ nm.op = "save_session" /\ nm.pc = "dump"
    /\ Len(nm.files[tmp_path(session_path)][1]) = Len(Dump(nm.data))
    /\ nm' = [nm EXCEPT !.pc = "replace"]
    /\ UNCHANGED <<config, previous, agent, run, asked, fh, lastOp>>

\* os.replace(tmp_path, path): the path names the temporary file's text and
\* the temporary name is gone, in one step
SaveReplace ==
    /\ nm.op = "save_session" /\ nm.pc = "replace"
    /\ nm' = [nm EXCEPT !.pc = "returned", !.ended = "returned",
                        !.files = [f \in DOMAIN @ |->
                                     IF f = session_path THEN @[tmp_path(session_path)]
                                     ELSE IF f = tmp_path(session_path) THEN None
                                     ELSE @[f]]]
    /\ UNCHANGED <<config, previous, agent, run, asked, fh, lastOp>>

\* the process stops where it is; the files stay as they are, and ended
\* keeps the step it stopped before
SaveCrash ==
    /\ nm.op = "save_session" /\ nm.pc \in {"makedirs", "open", "dump", "replace"}
    /\ nm' = [nm EXCEPT !.pc = "stopped", !.ended = nm.pc]
    /\ UNCHANGED <<config, previous, agent, run, asked, fh, lastOp>>

\* the next process reads the session
SaveThenLoad ==
    /\ nm.op = "save_session" /\ nm.pc \in {"stopped", "returned"}
    /\ previous' = load_session(nm.files, session_path)
    /\ nm' = [nm EXCEPT !.pc = "loaded"]
    /\ UNCHANGED <<config, agent, run, asked, fh, lastOp>>

SaveInit ==
    /\ config = "happy"
    /\ previous = None
    /\ agent = NewAgent(None)
    /\ fh = NewAgent(None)
    /\ run = RunIdle
    /\ asked = <<>>
    /\ lastOp = OpIdle
    /\ nm \in { [op |-> "save_session", pc |-> "makedirs", files |-> fs, before |-> fs,
                 data |-> m, ended |-> "none"] :
                fs \in FilesBefore, m \in SavedMemories }

SaveNext ==
    \/ SaveMakeDirs
    \/ SaveOpen
    \/ SaveWrite
    \/ SaveClose
    \/ SaveReplace
    \/ SaveCrash
    \/ SaveThenLoad

SpecSave == SaveInit /\ [][SaveNext]_vars

\* C21: at every point of save_session, and after the process stopped at
\* any of them, the file at the session path holds the text saved before or
\* the complete text of the new mapping, and load_session afterwards returns
\* the mapping saved before or the new one
C21_SaveAtomic ==
    nm.op = "save_session" =>
        /\ nm.files[session_path] \in {nm.before[session_path], Some(Dump(nm.data))}
        /\ nm.pc = "loaded" =>
              previous \in {load_session(nm.before, session_path), Some(nm.data)}
        /\ (nm.pc = "loaded" /\ nm.ended = "returned") => previous = Some(nm.data)

\* the process stopped in the middle of json.dump and the session read
\* afterwards is the one saved before
C21_Witness ==
    /\ nm.op = "save_session" /\ nm.pc = "loaded" /\ nm.ended = "dump"
    /\ nm.files[tmp_path(session_path)] # None
    /\ Len(nm.files[tmp_path(session_path)][1]) \in 1..5
    /\ previous # None
    /\ previous # Some(nm.data)
    /\ previous = load_session(nm.before, session_path)

-----------------------------------------------------------------------------
(* The phases of run()                                                     *)

\* S0..S5 in their order
PhaseRank(st) ==
    CASE st = "S0" -> 0 [] st = "S1" -> 1 [] st = "S2" -> 2
      [] st = "S3" -> 3 [] st = "S4" -> 4 [] st = "S5" -> 5

\* the steps main() takes inside agent.run()
InsideRun == run.pc \in {"init", "opening", "flow", "resume", "followup"}

\* C22: every step inside run() leaves result.session.state at the same or
\* a later phase; the questions of the follow-up loop are all asked in phase
\* S4; the phase is S5 when run() has returned; and the last_state that
\* export_state writes is the phase recorded at that moment
C22_PhaseForward ==
    [][ /\ (InsideRun /\ run'.pc # "exit") =>
              PhaseRank(agent'.session_state) >= PhaseRank(agent.session_state)
        /\ run'.pc = "followup" => agent'.session_state = "S4"
        /\ run'.pc = "done" => agent'.session_state = "S5"
        /\ run'.pc = "exit" /\ previous' # None =>
              /\ previous'[1].last_state = agent.session_state
              /\ agent'.memory.last_state = agent'.session_state
      ]_vars

\* a resumed run was interrupted at the second round of its follow-up
\* questions, and the session saved then says S4
C22_Witness ==
    /\ run.pc = "exit" /\ run.n = 2 /\ run.resumed /\ run.rounds = 2
    /\ lastOp.code = Some(130)
    /\ previous # None /\ previous[1].last_state = "S4"
    /\ agent.session_state = "S4"

-----------------------------------------------------------------------------
(* Canonical values of the fixed fields                                    *)

\* the labels _normalize_value produces for timeline without a table
TimelineLabels == {s_within_24h, s_within_1_week, s_within_2_weeks}

\* the canonical values of a kind under a config: the keys of its table,
\* the five bucket labels for budget, the built-in labels for timeline
CanonicalValues(cfg, kind) ==
    TableKeys(NormTable(cfg, kind))
    \cup (IF kind = "budget" THEN Range(BudgetBands) ELSE {})
    \cup (IF kind = "timeline" THEN TimelineLabels ELSE {})

\* C23: in every reachable state service_type, urgency, timeline and
\* budget_range of the request details are each not_provided or a canonical
\* value of their kind
C23_CanonicalOnly ==
    \A f \in {"service_type", "urgency", "timeline", "budget_range"} :
        \/ agent.details[f] = NOT_PROVIDED
        \/ agent.details[f] \in CanonicalValues(Configs[config], KindOf(f))

-----------------------------------------------------------------------------
(* The two implementations of field application side by side               *)

\* no intent of the config has an allowed set and the suggester is off
PlainConfig(cfg) ==
    /\ ~cfg.llm_enabled
    /\ \A intent \in IntentsOf(cfg) : Get(intent, "fields", EmptyDict) = EmptyDict

\* C24: under a config without allowed sets and with the suggester disabled,
\* after every sequence of the same (field, answer) applications from the
\* same initial record, the record of _apply_field and the record of
\* FieldHandlers.apply_field hold the same fixed-field values, the same
\* constraints list and the same inconsistency list
C24_SameOutcome ==
    PlainConfig(Configs[config]) =>
        /\ \A f \in FixedFields : agent.details[f] = fh.details[f]
        /\ agent.details.constraints = fh.details.constraints
        /\ agent.readiness.inconsistencies = fh.readiness.inconsistencies

-----------------------------------------------------------------------------
(* Calls of the pure helpers: constraints, service type validity and the   *)
(* required fields of an intent                                            *)

\* IntentRouter.required_fields_from_intent
required_fields_from_intent(intent) ==
    LET rf == Get(intent, "required_fields", <<>>)
    IN  IF rf # <<>> THEN rf ELSE _required_fields_from_intent(intent)

ConstraintTexts ==
    { <<>>, s_blank2, s_no, s_No, s_NOPE, s_nope, s_none, s_na, s_n_a, s_N_A,
      s_n_a_padded, s_north_side_only, s_not_before_9, s_open_until_6pm,
      s_open_padded, s_Open_Until_6PM, s_only_weekdays }

ServiceTexts ==
    { <<>>, s_blank2, s_repair, s_Repair, s_repair_padded, s_installation, s_rapair,
      s_fix, s_hi, s_urgent, s_flexible, s_yes, s_no, s_ok, s_okay, s_YES,
      s_Urgent_padded, s_what_is_the_price, s_showroom, s_hourly_cleaning,
      s_address_change, s_cost, s_qmark, s_a_qmark_b, s_ab, s_abc, s_12, s_12345,
      s_12a, s_okay_then }

PureConfigs == {"normalizers", "happy", "tax", "missing_location", "closed_set"}

nameless_flow ==
    << Step("issue_description", TRUE, "q_issue", "text"),
       Step("", TRUE, "q_nameless", "text"),
       Step("urgency", FALSE, "q_urgency", "urgency"),
       Step("location", TRUE, "q_location", "text") >>

optional_flow ==
    << Step("urgency", FALSE, "q_urgency", "urgency"),
       Step("constraints", FALSE, "q_constraints", "text") >>

\* intents with and without an explicit required_fields list
RequiredIntents ==
    { [id |-> "flow_only", flow |-> pre_quote_flow],
      [id |-> "nameless_step", flow |-> nameless_flow],
      [id |-> "nothing_required", flow |-> optional_flow],
      [id |-> "no_flow"],
      [id |-> "empty_list", flow |-> pre_quote_flow, required_fields |-> <<>>],
      [id |-> "short_list", flow |-> pre_quote_flow, required_fields |-> <<"location">>],
      [id |-> "other_order", flow |-> pre_quote_flow,
       required_fields |-> <<"location", "issue_description">>],
      [id |-> "outside_flow", flow |-> optional_flow,
       required_fields |-> <<"tax_year", "location">>] }

ConstraintsCall(raw, c) ==
    /\ nm.op = "none"
    /\ nm' = [ op |-> "normalize_constraints", raw |-> raw, cfg |-> c,
               out |-> normalize_constraints(raw, Configs[c]),
               agent_out |-> _normalize_constraints(raw, Configs[c]) ]
    /\ UNCHANGED <<config, previous, agent, run, asked, fh, lastOp>>

ServiceTypeCall(text) ==
    /\ nm.op = "none"
    /\ nm' = [ op |-> "is_valid_service_type", text |-> text,
               out |-> is_valid_service_type(text),
               agent_out |-> _is_valid_service_type(text) ]
    /\ UNCHANGED <<config, previous, agent, run, asked, fh, lastOp>>

RequiredFieldsCall(intent) ==
    /\ nm.op = "none"
    /\ nm' = [ op |-> "required_fields", intent |-> intent,
               router_out |-> required_fields_from_intent(intent),
               agent_out |-> _required_fields_from_intent(intent) ]
    /\ UNCHANGED <<config, previous, agent, run, asked, fh, lastOp>>

PureInit ==
    /\ config = "normalizers"
    /\ previous = None
    /\ agent = NewAgent(None)
    /\ run = RunIdle
    /\ asked = <<>>
    /\ fh = NewAgent(None)
    /\ lastOp = OpIdle
    /\ nm = NmIdle

PureNext ==
    \/ \E raw \in ConstraintTexts, c \in PureConfigs : ConstraintsCall(raw, c)
    \/ \E text \in ServiceTexts : ServiceTypeCall(text)
    \/ \E intent \in RequiredIntents : RequiredFieldsCall(intent)

SpecPure == PureInit /\ [][PureNext]_vars

\* the trimmed lower-cased form starts with "no" or is an entry of the
\* configured ignore list
Ignored(raw, cfg) ==
    \/ StartsWith(Lower(Strip(raw)), s_no)
    \/ Lower(Strip(raw)) \in cfg.constraints_ignore

\* C25: normalize_constraints returns the empty string exactly when the raw
\* text is blank, or its trimmed lower-cased form starts with "no" or is an
\* entry of constraints_ignore; in every other case it returns the trimmed
\* raw text as it was typed
C25_ConstraintsNormalized ==
    nm.op = "normalize_constraints" =>
        /\ nm.out = <<>> <=> (IsBlank(nm.raw) \/ Ignored(nm.raw, Configs[nm.cfg]))
        /\ nm.out # <<>> => nm.out = Strip(nm.raw)

\* "N/A" is dropped through the ignore list, with its case folded, and kept
\* as typed by a config that does not list it
C25_Witness ==
    /\ nm.op = "normalize_constraints"
    /\ nm.raw = s_N_A
    /\ \/ nm.cfg = "normalizers" /\ nm.out = <<>>
       \/ nm.cfg = "tax" /\ nm.out = s_N_A

QuestionMarkers ==
    {s_what, s_how, s_price, s_pricing, s_cost, s_charge, s_rates, s_hours,
     s_address, s_qmark}

\* the grounds on which a text is refused as a service type
Refused(text) ==
    LET t == Lower(Strip(text))
    IN  \/ t = <<>>
        \/ \E m \in QuestionMarkers : Contains(t, m)
        \/ Len(t) < 3
        \/ (t # <<>> /\ \A i \in 1..Len(t) : IsDigit(t[i]))
        \/ t \in {s_yes, s_no, s_ok, s_okay, s_urgent, s_flexible}

\* C26: is_valid_service_type is false exactly for text that, trimmed and
\* lower-cased, is empty, contains a question marker, has fewer than three
\* characters, is purely numeric or is one of yes, no, ok, okay, urgent,
\* flexible; it is true for every other text, and the engine's own
\* _is_valid_service_type answers the same
C26_ServiceTypeValidity ==
    nm.op = "is_valid_service_type" =>
        /\ nm.out <=> ~Refused(nm.text)
        /\ nm.agent_out = nm.out

\* a misspelt service type passes, and a text that only contains a marker
\* inside a word is refused
C26_Witness ==
    /\ nm.op = "is_valid_service_type"
    /\ \/ nm.text = s_rapair /\ nm.out /\ nm.agent_out
       \/ nm.text = s_showroom /\ ~nm.out /\ ~nm.agent_out

\* the flow steps marked required that have a field name
RequiredSteps(intent) ==
    LET Wanted(st) == st.required /\ st.field # ""
    IN  SelectSeq(Get(intent, "flow", <<>>), Wanted)

\* the explicit list when present and non-empty, else the fields of the
\* required flow steps in flow order
StatedRequired(intent) ==
    IF "required_fields" \in DOMAIN intent /\ intent.required_fields # <<>>
    THEN intent.required_fields
    ELSE [i \in 1..Len(RequiredSteps(intent)) |-> RequiredSteps(intent)[i].field]

\* C27: the required fields the engine takes from an intent, and those the
\* router takes, are the intent's explicit required_fields list when it is
\* present and non-empty, and otherwise the fields of the flow steps marked
\* required with a non-empty field name, in flow order
C27_RequiredFields ==
    nm.op = "required_fields" =>
        /\ nm.agent_out = StatedRequired(nm.intent)
        /\ nm.router_out = StatedRequired(nm.intent)

-----------------------------------------------------------------------------
(* Budget short-circuit and the empty-attempt counter                      *)

s_free == <<"f","r","e","e">>

\* the budget values that signal incompatible economics
IncompatibleBudget(val) == Contains(val, s_free) \/ val = s_lt50

\* C28: once budget_range holds a value that contains "free" or is the
\* lowest bucket <50, the run has ended with readiness.status not_a_fit and
\* no further question is waiting for an answer
C28_NotAFit ==
    IncompatibleBudget(agent.details.budget_range) =>
        /\ run.pc = "done"
        /\ agent.readiness.status = "not_a_fit"

\* the session with its follow-up answers counted: nm.blanks counts, per
\* field, the blank answers given to follow-up questions since the session
\* began, and nm.capped holds the (run, field) pairs for which a blank answer
\* was given while the field's counter stood at the cap or above
CountedConfigs == {"missing_location", "tax"}

AnswerFollowupCounted ==
    /\ run.pc = "followup"
    /\ nm.op = "answers"
    /\ \E typed \in Typed(AnswersFor(AskedField(run))) :
          \E ext \in ExtsFor(Configs[config], AskedField(run), typed) :
             \E s \in {AfterFollowup(agent, Consumed(run), Configs[config], Strip(typed), ext)} :
                /\ agent' = s.A
                /\ run' = s.R
                /\ asked' = IF s.ask = None THEN asked
                            ELSE Append(asked, [phase |-> s.R.pc, field |-> AskedField(s.R),
                                                question |-> s.ask[1]])
                /\ nm' = [nm EXCEPT
                            !.blanks = IF Strip(typed) = <<>>
                                       THEN Put(@, AskedField(run), Get(@, AskedField(run), 0) + 1)
                                       ELSE @,
                            !.capped = IF /\ Strip(typed) = <<>>
                                          /\ Get(agent.memory.attempts, AskedField(run), 0)
                                                >= MAX_EMPTY_TRIES_PER_FIELD_IN_RUN
                                       THEN @ \cup {[n |-> run.n, field |-> AskedField(run)]}
                                       ELSE @]
    /\ UNCHANGED <<config, previous, fh, lastOp>>

CountedInit ==
    /\ config \in CountedConfigs
    /\ previous = None
    /\ agent = NewAgent(None)
    /\ run = NewRun(1, "free")
    /\ asked = <<>>
    /\ fh = NewAgent(None)
    /\ lastOp = OpIdle
    /\ nm = [op |-> "answers", blanks |-> EmptyDict, capped |-> {}]

CountedNext ==
    \/ Start
    \/ AnswerOpening
    \/ AnswerFlow
    \/ AnswerResume
    \/ AnswerFollowupCounted
    \/ NextInvocation

SpecCounted == CountedInit /\ [][CountedNext]_vars

\* C29: when a run has ended, memory.attempts[field] is the number of blank
\* answers given for that field since the session began, earlier runs
\* included: a blank answer adds one and a non-blank answer adds nothing
C29_CountsBlankAnswers ==
    (nm.op = "answers" /\ run.pc = "done") =>
        \A f \in DOMAIN agent.memory.attempts \cup DOMAIN nm.blanks :
            Get(agent.memory.attempts, f, 0) = Get(nm.blanks, f, 0)

\* C30: after a blank answer for a field whose counter stood at
\* MAX_EMPTY_TRIES_PER_FIELD_IN_RUN or above, no question for that field is
\* asked in the same run, whether the counter reached the cap in this run
\* or in an earlier one
C30_NotAskedAgain ==
    [][ (nm'.op = "answers" /\ Len(asked') > Len(asked)) =>
            [n |-> run'.n, field |-> AskedField(run')] \notin nm'.capped ]_vars

-----------------------------------------------------------------------------
(* Location suggestions and the llm_used audit list                        *)

\* the user confirmed a suggestion that differs from the answer in more than
\* letter case
ConfirmedSuggestion(op, cfg) ==
    /\ op.field = "location"
    /\ LET Differs(c) == c # None /\ Lower(c[1]) # Lower(Strip(op.raw))
       IN  Differs(maybe_correct_location_with_confirmation(op.raw, cfg, op.ext))

\* the positions of the log that report an accepted location suggestion
AcceptedLocationLogs(X) ==
    {i \in 1..Len(X.decision_log) :
        /\ X.decision_log[i][1] = "llm_suggestion_accepted"
        /\ X.decision_log[i][2] = "location"}

\* the number of location_correction entries of llm_used
CorrectionEntries(X) ==
    Cardinality({i \in 1..Len(X.sources.llm_used) :
                    X.sources.llm_used[i] = "location_correction"})

\* what one application may do to the audit list and the log of a record
AuditedStep(X, X2, confirmed) ==
    /\ CorrectionEntries(X2) <= 1
    /\ (CorrectionEntries(X2) > CorrectionEntries(X)) => confirmed
    /\ (confirmed => CorrectionEntries(X2) = 1)
    /\ (AcceptedLocationLogs(X2) # AcceptedLocationLogs(X)) => confirmed

\* C31: location_correction enters sources.llm_used exactly through an
\* application in which the user confirmed a suggestion differing from the
\* raw answer, never more than once; an application without a suggestion,
\* or with a rejected or unclear confirmation, adds nothing to llm_used and
\* logs no accepted suggestion; stated for both handlers
C31_AuditOnlyConfirmed ==
    [][ lastOp'.n = lastOp.n + 1 =>
          /\ AuditedStep(agent, agent', ConfirmedSuggestion(lastOp', Configs[config]))
          /\ AuditedStep(fh, fh', ConfirmedSuggestion(lastOp', Configs[config])) ]_vars

-----------------------------------------------------------------------------
(* The allowed set of service types                                        *)

\* the allowed sets the intents of a config define for service_type
AllowedSets(cfg) ==
    {allowed_for_field(intent, "service_type") : intent \in IntentsOf(cfg)}

\* C32: under a config whose intents all define a non-empty allowed set for
\* service_type, after any sequence of answers applied by
\* FieldHandlers.apply_field, service_type in details and in the collected
\* memory is not_provided (absent) or a member of the allowed set
C32_OnlyAllowed ==
    (<<>> \notin AllowedSets(Configs[config])) =>
        \A allowed \in AllowedSets(Configs[config]) :
            /\ fh.details.service_type \in {NOT_PROVIDED} \cup Range(allowed)
            /\ Get(fh.memory.collected, "service_type", NOT_PROVIDED)
                  \in {NOT_PROVIDED} \cup Range(allowed)

-----------------------------------------------------------------------------
(* The constraints list and the inconsistency list                         *)

IsPrefix(s, t) == Len(s) <= Len(t) /\ SubSeq(t, 1, Len(s)) = s

\* what one application may do to the two lists of a record
Appended(X, X2, op, cfg) ==
    /\ IsPrefix(X.details.constraints, X2.details.constraints)
    /\ IsPrefix(X.readiness.inconsistencies, X2.readiness.inconsistencies)
    /\ Len(X2.details.constraints) <= Len(X.details.constraints) + 1
    /\ (op.field # "constraints" \/ normalize_constraints(op.raw, cfg) = <<>>)
          => X2.details.constraints = X.details.constraints

-----------------------------------------------------------------------------
(* Prefill after field applications                                        *)

\* FieldHandlers.apply_prefill
apply_prefill(F, cfg, field, value0) ==
    LET value == norm_text(value0)
        F1 == [F EXCEPT !.sources.prefill = TRUE]
        Set(norm) ==
            IF norm # NOT_PROVIDED
            THEN _log([F1 EXCEPT !.details[field] = norm], <<"prefill", field, norm>>)
            ELSE F1
        Extra(norm) ==
            _log([F1 EXCEPT !.details.extra_fields = Put(@, field, norm)],
                 <<"prefill", "extra_fields", field>>)
    IN  IF value = <<>> THEN F
        ELSE CASE field = "location" -> Set(normalize_value("text", value, cfg))
               [] field = "timeline" -> Set(normalize_value("timeline", value, cfg))
               [] field = "budget_range" -> Set(normalize_value("budget", value, cfg))
               [] field = "urgency" -> Set(normalize_value("urgency", value, cfg))
               [] field = "service_type" -> Set(normalize_value("service_type", value, cfg))
               [] OTHER -> Extra(normalize_value("text", value, cfg))

\* the kind run() names in the synthetic intent it passes with a candidate
PrefillKind(field) ==
    CASE field = "timeline" -> "timeline" [] field = "budget_range" -> "budget"
      [] field = "urgency" -> "urgency" [] OTHER -> "text"

\* candidates: the values extract_prefill produces, blank ones, and a
\* service type
PrefillCandidates ==
    { <<"timeline", s_within_24h>>, <<"timeline", s_within_2_weeks>>,
      <<"budget_range", s_500_1000>>, <<"budget_range", s_100_300>>,
      <<"location", s_Toronto>>, <<"location", s_Berlin>>,
      <<"urgency", s_urgent>>, <<"urgency", s_flexible>>,
      <<"service_type", s_installation>>,
      <<"urgency", s_blank2>>, <<"location", <<>> >> }

PrefillCall ==
    /\ nm.op = "none"
    /\ \E c \in PrefillCandidates :
          /\ agent' = _apply_prefill(agent, Configs[config],
                                     [flow |-> << Step(c[1], FALSE, "", PrefillKind(c[1])) >>],
                                     c[1], c[2], NoExt)
          /\ fh' = apply_prefill(fh, Configs[config], c[1], c[2])
          /\ nm' = [op |-> "prefill", field |-> c[1], value |-> c[2]]
    /\ UNCHANGED <<config, previous, run, asked, lastOp>>

PrefillInit ==
    /\ config = "happy"
    /\ previous = None
    /\ agent = NewAgent(None)
    /\ fh = NewAgent(None)
    /\ run = RunIdle
    /\ asked = <<>>
    /\ lastOp = OpIdle
    /\ nm = NmIdle

PrefillNext ==
    \/ ApplyAnswer
    \/ PrefillCall

SpecPrefill == PrefillInit /\ [][PrefillNext]_vars

\* the kind a candidate's field is normalized with
CandidateKind(field) ==
    CASE field = "timeline" -> "timeline" [] field = "budget_range" -> "budget"
      [] field = "urgency" -> "urgency" [] field = "service_type" -> "service_type"
      [] OTHER -> "text"

\* what applying the candidate op may do to a record
Prefilled(X, X2, op, cfg) ==
    IF IsBlank(op.value) THEN X2 = X
    ELSE /\ X2.sources.prefill
         /\ X2.readiness.inconsistencies = X.readiness.inconsistencies
         /\ LET Written(norm) == norm # NOT_PROVIDED => X2.details[op.field] = norm
            IN  Written(normalize_value(CandidateKind(op.field), op.value, cfg))

\* C34: applying a prefill candidate with a non-blank value sets
\* sources.prefill and, when the value normalizes to something other than
\* not_provided, leaves the normalized value in its field whatever the field
\* held, with no inconsistency added; a blank candidate changes nothing;
\* stated for both implementations
C34_PrefillUnconditional ==
    [][ (nm.op = "none" /\ nm'.op = "prefill") =>
          /\ Prefilled(agent, agent', nm', Configs[config])
          /\ Prefilled(fh, fh', nm', Configs[config]) ]_vars

-----------------------------------------------------------------------------
(* Day counts in timeline text                                             *)

MaxDays == 26

DayPrefixes == { <<>>, <<"i","n"," ">>, <<"w","i","t","h","i","n"," ">> }
DayUnits == { <<" ","d","a","y","s">>, <<" ","d","a","y">>, <<"d">>, <<"d","a","y","s">> }
DaySuffixes == { <<>>, <<" ","o","r"," ","a"," ","w","e","e","k">> }
DayConfigs == {"normalizers", "tax"}

DayText(n, pre, unit, suf) == pre \o Numeral(n) \o unit \o suf

DaysCall(n, pre, unit, suf, c) ==
    /\ nm.op = "none"
    /\ nm' = [ op   |-> "days", n |-> n, pre |-> pre, unit |-> unit, suf |-> suf, cfg |-> c,
               raw  |-> DayText(n, pre, unit, suf),
               out  |-> normalize_value("timeline", DayText(n, pre, unit, suf), Configs[c]),
               next |-> normalize_value("timeline", DayText(n + 1, pre, unit, suf), Configs[c]) ]
    /\ UNCHANGED <<config, previous, agent, run, asked, fh, lastOp>>

DaysInit ==
    /\ config = "normalizers"
    /\ previous = None
    /\ agent = NewAgent(None)
    /\ run = RunIdle
    /\ asked = <<>>
    /\ fh = NewAgent(None)
    /\ lastOp = OpIdle
    /\ nm = NmIdle

DaysNext ==
    \E n \in 0..MaxDays, pre \in DayPrefixes, unit \in DayUnits, suf \in DaySuffixes,
       c \in DayConfigs : DaysCall(n, pre, unit, suf, c)

SpecDays == DaysInit /\ [][DaysNext]_vars

\* the text matches no synonym and no canonical of the timeline table and
\* holds none of the keywords that mean within 24 hours
PlainDayText(raw, cfg) ==
    /\ SynonymMatch(NormTable(cfg, "timeline"), norm_lc(raw)) = None
    /\ norm_text(raw) \notin TableKeys(NormTable(cfg, "timeline"))
    /\ ~ContainsAny(norm_lc(raw), {s_today, s_tomorrow, s_within_24h, s_within_24, s_24h})

DayBucketRank(b) ==
    CASE b = s_within_24h -> 1 [] b = s_within_1_week -> 2
      [] b = s_within_2_weeks -> 3 [] OTHER -> 0

\* C35: for timeline text that matches no synonym, holds none of the 24h
\* keywords and holds a day count n, n <= 1 gives within_24h, 2..7
\* within_1_week, 8..14 within_2_weeks, n > 14 not_provided unless the text
\* contains "week"; the bucket does not decrease from n to n + 1 up to 14
C35_DayBuckets ==
    (nm.op = "days" /\ PlainDayText(nm.raw, Configs[nm.cfg])) =>
        /\ nm.n <= 1 => nm.out = s_within_24h
        /\ (2 <= nm.n /\ nm.n <= 7) => nm.out = s_within_1_week
        /\ (8 <= nm.n /\ nm.n <= 14) => nm.out = s_within_2_weeks
        /\ (nm.n > 14 /\ ~Contains(norm_lc(nm.raw), s_week)) => nm.out = NOT_PROVIDED
        /\ (nm.n > 14 /\ Contains(norm_lc(nm.raw), s_week)) =>
              nm.out \in {s_within_1_week, s_within_2_weeks}
        /\ (nm.n + 1 <= 14
            /\ PlainDayText(DayText(nm.n + 1, nm.pre, nm.unit, nm.suf), Configs[nm.cfg])) =>
              DayBucketRank(nm.out) <= DayBucketRank(nm.next)

C35_Witness ==
    /\ nm.op = "days" /\ nm.n = 7 /\ nm.pre = <<"i","n"," ">> /\ nm.unit = <<"d">>
    /\ nm.suf = <<>> /\ nm.out = s_within_1_week /\ nm.next = s_within_2_weeks
    /\ PlainDayText(nm.raw, Configs[nm.cfg])

-----------------------------------------------------------------------------
(* Readiness against the record returned                                   *)

\* the value the returned record holds for a field: its attribute in the
\* request details, or for a field without an attribute its entry in
\* extra_fields or, failing that, in the session memory returned with it
HeldValue(A, f) ==
    IF f \in FixedFields THEN A.details[f]
    ELSE IF f \in DOMAIN A.details.extra_fields THEN A.details.extra_fields[f]
    ELSE Get(A.memory.collected, f, NOT_PROVIDED)

Unheld(A, intent) ==
    {f \in Range(_required_fields_from_intent(intent)) : HeldValue(A, f) = NOT_PROVIDED}

\* C36: whenever run() returns with readiness.status ready, every required
\* field of the active intent holds a value other than not_provided in the
\* returned record, in fresh runs, resumed runs and later conversations of
\* a session
C36_ReadyMeansHeld ==
    (run.pc = "done" /\ agent.readiness.status = "ready") => Unheld(agent, run.intent) = {}

-----------------------------------------------------------------------------
(* The missing list against the intent's required fields                   *)

RequiredOf(intent) == Range(_required_fields_from_intent(intent))

\* C37: the missing-field list is a subset of the active intent's required
\* fields: no follow-up question is asked for, and readiness.missing_fields
\* never holds, a field the intent does not require; an intent without
\* required fields ends ready with no follow-up question
C37_MissingWithinRequired ==
    (run.pc \in {"flow", "resume", "followup", "done"}) =>
        /\ \A i \in 1..Len(asked) :
              asked[i].phase = "followup" => asked[i].field \in RequiredOf(run.intent)
        /\ Range(run.missing) \subseteq RequiredOf(run.intent)
        /\ Range(agent.readiness.missing_fields) \subseteq RequiredOf(run.intent)
        /\ (RequiredOf(run.intent) = {} /\ run.pc = "done") =>
              agent.readiness.status = "ready"

-----------------------------------------------------------------------------
(* Stored values under later answers                                       *)

KeptFields == {"service_type", "urgency", "timeline", "location", "budget_range"}

\* C38: once service_type, urgency, timeline, location or budget_range
\* holds a value other than not_provided, no later application of an answer
\* to that field changes the stored string, letter case included
C38_StoredStringKept ==
    [][ (lastOp'.n = lastOp.n + 1 /\ lastOp'.field \in KeptFields
         /\ agent.details[lastOp'.field] # NOT_PROVIDED) =>
            agent'.details[lastOp'.field] = agent.details[lastOp'.field] ]_vars

-----------------------------------------------------------------------------
(* Dollar amounts in the opening message                                   *)

\* amounts MinDollar..MaxDollar are written into the message
MinDollar == 10
MaxDollar == 520

DollarConfigs == {"happy", "normalizers", "tax"}

DollarPrefixes == { <<"$">>, <<"b","u","d","g","e","t"," ","$"," ">> }

\* the prefill loop of run() over a first message that names an amount
DollarPrefill(n, pre) ==
    /\ nm.op = "none"
    /\ agent' = ApplyPrefills(agent, Configs[config], extract_prefill(pre \o Numeral(n)))
    /\ nm' = [op |-> "dollar", n |-> n, text |-> pre \o Numeral(n)]
    /\ UNCHANGED <<config, previous, run, asked, fh, lastOp>>

DollarInit ==
    /\ config \in DollarConfigs
    /\ previous = None
    /\ agent = NewAgent(None)
    /\ run = RunIdle
    /\ asked = <<>>
    /\ fh = NewAgent(None)
    /\ lastOp = OpIdle
    /\ nm = NmIdle

DollarNext == \E n \in MinDollar..MaxDollar, pre \in DollarPrefixes : DollarPrefill(n, pre)

SpecDollar == DollarInit /\ [][DollarNext]_vars

\* C39: when the opening message holds a dollar amount $n, the budget_range
\* stored by prefill equals the bucket budget normalization assigns to n
C39_SameBucket ==
    nm.op = "dollar" =>
        agent.details.budget_range = _normalize_value("budget", Numeral(nm.n), Configs[config])

-----------------------------------------------------------------------------
(* The flow-collection pass                                                *)

\* does the record hold a value for the step's field when the step is reached
HoldsAlready(d, field) ==
    IF field = "constraints" THEN d.constraints # <<>>
    ELSE field \in FixedFields /\ d[field] # NOT_PROVIDED

\* the steps from k on that are to be asked
OpenSteps(A, intent, k) ==
    {j \in k..Len(Flow(intent)) :
        /\ Flow(intent)[j].field # "issue_description"
        /\ ~HoldsAlready(A.details, Flow(intent)[j].field)}

\* the answer typed at a flow question (the next scripted one, or a drawn
\* one) went to the field of that question
AppliedToAsked(A, A2, R, cfg) ==
    \E typed \in Typed(AnswersFor(AskedField(R))) :
        \E ext \in ExtsFor(cfg, AskedField(R), typed) :
            A2.details = _apply_field(A, cfg, R.intent, AskedField(R), Strip(typed), ext).details

\* the next question is that of the first open step, if there is one
NextAsked(open, R2, before, after) ==
    IF open = {}
    THEN R2.pc \in {"followup", "done"}
         /\ \A i \in (Len(before) + 1)..Len(after) : after[i].phase # "flow"
    ELSE /\ R2.pc = "flow"
         /\ R2.i = SetMin(open)
         /\ Len(after) = Len(before) + 1
         /\ after[Len(after)].phase = "flow"
         /\ after[Len(after)].field = Flow(R2.intent)[SetMin(open)].field
         /\ \A i \in 1..Len(before) : after[i] = before[i]

-----------------------------------------------------------------------------
(* Normalization calls: the pure functions applied to drawn inputs         *)

Kinds == {"text", "service_type", "urgency", "timeline", "budget"}

RawTexts ==
    { <<>>, s_blank2, s_urgent, s_asap, s_not_urgent, s_flexible, s_repair,
      s_Repair, s_repair_padded, s_fix, s_rapair, s_yes, s_no, s_N_A,
      s_open_until_6pm, s_800, s_usd800, s_i_told_you_800, s_40, s_not_sure,
      s_next_week, s_6_days, s_14_days, s_20_days, s_tomorrow, s_two_weeks,
      s_within_24h, s_within_1_week, s_within_2_weeks,
      s_lt50, s_50_100, s_100_300, s_300_500, s_500_1000,
      s_Toronto, s_toronto, s_Berlin, s_cheap, s_premium, NOT_PROVIDED }

\* the test config of the normalizers and the one with a budget table
NormConfigs == {"normalizers", "tax"}

BudgetPrefixes == { <<>>, <<"$">>, <<"<">>, <<"u","p"," ","t","o"," ">> }
BudgetSuffixes == { <<>>, <<" ","o","r"," ","9","0","0">> }

NormalizeCall(kind, raw, c) ==
    /\ nm.op = "none"
    /\ nm' = [ op    |-> "normalize_value", kind |-> kind, raw |-> raw, cfg |-> c,
               out   |-> normalize_value(kind, raw, Configs[c]),
               again |-> normalize_value(kind, normalize_value(kind, raw, Configs[c]),
                                         Configs[c]),
               agent_out   |-> _normalize_value(kind, raw, Configs[c]),
               agent_again |-> _normalize_value(kind, _normalize_value(kind, raw, Configs[c]),
                                                Configs[c]) ]
    /\ UNCHANGED <<config, previous, agent, run, asked, fh, lastOp>>

BudgetCall(n, pre, suf, c) ==
    /\ nm.op = "none"
    /\ nm' = [ op   |-> "budget", n |-> n, pre |-> pre, suf |-> suf, cfg |-> c,
               raw  |-> pre \o Numeral(n) \o suf,
               out  |-> normalize_value("budget", pre \o Numeral(n) \o suf, Configs[c]),
               next |-> normalize_value("budget", pre \o Numeral(n + 1) \o suf, Configs[c]) ]
    /\ UNCHANGED <<config, previous, agent, run, asked, fh, lastOp>>

NoDigitsCall(raw, c) ==
    /\ nm.op = "none"
    /\ \A i \in 1..Len(raw) : ~IsDigit(raw[i])
    /\ nm' = [ op |-> "budget_no_digits", raw |-> raw, cfg |-> c,
               out |-> normalize_value("budget", raw, Configs[c]) ]
    /\ UNCHANGED <<config, previous, agent, run, asked, fh, lastOp>>

NormInit ==
    /\ config = "normalizers"
    /\ previous = None
    /\ agent = NewAgent(None)
    /\ run = RunIdle
    /\ asked = <<>>
    /\ fh = NewAgent(None)
    /\ lastOp = OpIdle
    /\ nm = NmIdle

NormNext ==
    \/ \E kind \in Kinds, raw \in RawTexts, c \in NormConfigs : NormalizeCall(kind, raw, c)
    \/ \E n \in 0..MaxBudget, pre \in BudgetPrefixes, suf \in BudgetSuffixes, c \in NormConfigs :
          BudgetCall(n, pre, suf, c)
    \/ \E raw \in RawTexts, c \in NormConfigs : NoDigitsCall(raw, c)

SpecNorm == NormInit /\ [][NormNext]_vars
=============================================================================
